---- MODULE Spec2Model ----
(***************************************************************************)
(* State-machine model of k4rz4/ethereum-custom-transactions:              *)
(*   - pkg/merkle        : Tree.build / GenerateProof / VerifyProof        *)
(*   - internal/nonce    : Manager.GetNext / Reset                         *)
(*   - internal/pool     : ClientPool.Get                                  *)
(*   - pkg/transaction   : Manager.SendWithContext, GenerateProof,         *)
(*                         VerifyProof, custom-data encoding               *)
(*   - pkg/batch         : Processor (Submit, worker, Close, GetResult)    *)
(* Digests are modelled as terms of a free algebra (a collision-free       *)
(* hash): a leaf digest is <<k>> with k >= 1, and the Keccak of the         *)
(* concatenation of two digests is the prefix-coded term <<0>> \o l \o r.  *)
(***************************************************************************)
EXTENDS Integers, Sequences, FiniteSets, TLC

(***************************************************************************)
(* Bounds of the model.                                                    *)
(***************************************************************************)
MaxLeaves == 5
NumAtoms == 2
MaxSends == 4
MaxRequests == 2
MaxProofCalls == 2
MaxTime == 3
MaxNonceCalls == 4
MaxNodeTxs == 2
MaxDataLen == 2
QueueSize == 1
PoolSize == 2

Direct == {"c1", "c2"}          \* goroutines calling Manager.Send directly
Workers == {"w1", "w2"}         \* goroutines of batch.Processor.worker
Callers == Direct \cup Workers
Submitters == {"s1"}            \* goroutines calling Processor.Submit
NonceCallers == {"n1", "n2"}
Closers == {"k1", "k2"}         \* goroutines calling Processor.Close (k1 calls first)
Sender == "sender"              \* Manager.address
Addresses == {Sender, "other"}

VARIABLES
    tree,        \* merkle.Tree: [root, leaves, layers]
    mIndex,      \* index passed to the last GenerateProof
    mLeaf,       \* leaf digest handed to VerifyProof
    mProof,      \* proof returned by GenerateProof: [nil, path]
    mAltered,    \* position of the sibling replaced in mProof (0: none)
    mVerdict     \* result of the last VerifyProof: "none", "true", "false"

merkleVars == <<tree, mIndex, mLeaf, mProof, mAltered, mVerdict>>

VARIABLES
    pendingNonces, \* nonce.Manager.pendingNonces: address -> next unused nonce
    nodeTxs,       \* the node's transaction pool: address -> nonces it has accepted
    poolCurrent,   \* pool.ClientPool.current
    poolClosed,    \* pool.ClientPool.closed
    sclosed,       \* was the pool closed when the caller's running Send was entered
    TxSent,        \* transaction.Metrics.TxSent
    TxFailed,      \* transaction.Metrics.TxFailed
    spc,           \* position of each caller inside SendWithContext
    snonce,        \* nonce the caller's running Send obtained from GetNext
    serr,          \* error the caller's running Send is about to return
    sret,          \* what the caller's last completed Send returned
    sendsStarted,  \* number of Manager.Send calls the direct callers started
    panicked       \* the process crashed (nil dereference, send on closed channel)

sendVars == <<pendingNonces, nodeTxs, poolCurrent, poolClosed, sclosed, TxSent, TxFailed,
              spc, snonce, serr, sret, sendsStarted, panicked>>

VARIABLES
    queue,          \* batch.Processor.queue: the buffered channel's contents
    queueClosed,    \* close(p.queue) was executed
    results,        \* batch.Processor.results: the buffered channel's contents
    resultsClosed,  \* close(p.results) was executed
    cancelled,      \* batch.Processor.ctx is done (p.cancel() was called)
    closed,         \* batch.Processor.closed
    onceTaken,      \* batch.Processor.closeOnce has started its function
    TotalQueued,    \* batch.Metrics.TotalQueued
    TotalProcessed, \* batch.Metrics.TotalProcessed
    TotalFailed,    \* batch.Metrics.TotalFailed
    wpc,            \* position of each worker goroutine
    wreq,           \* request the worker took from the queue
    wres,           \* Result the worker built for it
    subpc,          \* position of each goroutine calling Submit
    subreq,         \* request that Submit call carries
    subRet,         \* request -> what Submit returned for it ("none": not yet)
    nextId,         \* number of requests handed to Submit so far
    kpc,            \* position of each goroutine calling Close
    deqCount,       \* request -> how many times a worker received it from the queue
    delivered       \* request -> number of its Results GetResult has handed out

batchVars == <<queue, queueClosed, results, resultsClosed, cancelled, closed, onceTaken,
               TotalQueued, TotalProcessed, TotalFailed, wpc, wreq, wres,
               subpc, subreq, subRet, nextId, kpc, deqCount, delivered>>

VARIABLES
    chain,           \* the node: block hash -> the block's transactions, in order
    proofCache,      \* cache.ProofCache: tx hash -> [proof, stored]
    receiptCache,    \* cache.ReceiptCache (LRU): [keys (oldest first), vals]
    blockCache,      \* cache.BlockCache (LRU): [keys (oldest first), vals]
    treeCache,       \* Manager.treeCache: block hash -> tree
    ProofsGenerated, \* transaction.Metrics.ProofsGenerated
    CacheHits,       \* transaction.Metrics.CacheHits
    CacheMisses,     \* transaction.Metrics.CacheMisses
    now,             \* the clock, in units of 15 minutes
    gres,            \* what the last GenerateProof returned: [done, err, proof]
    vres             \* what the last VerifyProof returned: [done, ok, err]

proofVars == <<chain, proofCache, receiptCache, blockCache, treeCache,
               ProofsGenerated, CacheHits, CacheMisses, now, gres, vres>>

VARIABLES
    nmu,             \* nonce.Manager.mu: the caller that holds it, "" when free
    npc,             \* position of each caller of the nonce sequencer
    nop,             \* the call each caller is making: [kind, address]
    nlog,            \* the last call of the sequencer that returned, and what it returned
    ncalls,          \* number of calls of the sequencer that have returned
    nprev            \* per address: what the sequencer last did for it

nonceVars == <<nmu, npc, nop, nlog, ncalls, nprev>>

VARIABLES
    encStandard,     \* the standardData handed to EncodeCustomData
    encCustom,       \* the customData handed to EncodeCustomData
    encBuffer,       \* the buffer EncodeCustomData returned
    encResult,       \* what DecodeCustomData returned for the buffer
    encpc            \* "input", "encoded" or "decoded"

encVars == <<encStandard, encCustom, encBuffer, encResult, encpc>>

VARIABLES
    poolMu,        \* pool.ClientPool.mu: the caller holding the lock, or "none"
    poolReleased,  \* handle -> number of times client.Close() was called on it
    ppc,           \* position of each caller inside ClientPool.Get / Close
    pclient,       \* the client the caller's Get read (0: nil)
    pstart,        \* what the caller's running call saw when it started
    poolLog,       \* the Get calls that returned, in the order of their return
    poolCloseDone, \* a Close call has returned
    poolCalls      \* number of Get and Close calls started

poolVars == <<poolMu, poolReleased, ppc, pclient, pstart, poolLog, poolCloseDone, poolCalls>>

VARIABLES
    cpc,           \* position of each reader inside ProofCache.Get
    cload,         \* what the reader's running ProofCache.Get loaded
    cacheRet,      \* what the last call returned and had loaded, if it was a ProofCache.Get
    lastSet,       \* key -> the value and the time of the Set that stored its entry
    sweepPending,  \* cleanup: the keys the running Range has still to visit
    sweepKey,      \* cleanup: the key whose expired entry it is about to delete
    sweepRemoved,  \* the keys cleanup has deleted
    cacheCalls,    \* number of ProofCache.Get, Set and Delete calls
    lruUsed,       \* cache -> the keys used (Set, or Get hit) so far, oldest use first
    lruLast        \* the last call made to the block or receipt cache

cacheVars == <<cpc, cload, cacheRet, lastSet, sweepPending, sweepKey, sweepRemoved,
               cacheCalls, lruUsed, lruLast>>

VARIABLES
    tpc,           \* position of each caller inside Manager.getMerkleTree
    tblock,        \* the block the caller's running getMerkleTree got from getBlock
    tret,          \* what the caller's last getMerkleTree returned, and how
    treeBuilds,    \* block hash -> number of merkle.NewTree calls made for it
    treeCalls      \* number of getMerkleTree calls started

treeVars == <<tpc, tblock, tret, treeBuilds, treeCalls>>

vars == <<merkleVars, sendVars, batchVars, proofVars, nonceVars, encVars, poolVars, cacheVars,
          treeVars>>

(***************************************************************************)
(* pkg/merkle                                                              *)
(***************************************************************************)
Keccak256HashLeftOnly(l, r) == <<0>> \o l

\* crypto.Keccak256Hash(append(l.Bytes(), r.Bytes()...)): injective, order-sensitive
Keccak256Hash(l, r) == <<0>> \o l \o r

\* Leaf digests: tx.Hash() of a transaction
LeafDigests == { <<k>> : k \in 1..NumAtoms }

RECURSIVE PairUpDuplicating(_, _)
PairUpDuplicating(currentLevel, i) ==
    IF i >= Len(currentLevel) THEN <<>>
    ELSE <<Keccak256Hash(currentLevel[i + 1],
                         currentLevel[IF i + 1 < Len(currentLevel) THEN i + 2 ELSE i + 1])>>
             \o PairUpDuplicating(currentLevel, i + 2)

RECURSIVE PairUp(_, _)
\* inner loop of build: for i := 0; i < len(currentLevel); i += 2  (i is 0-based)
PairUp(currentLevel, i) ==
    IF i >= Len(currentLevel) THEN <<>>
    ELSE IF i + 1 < Len(currentLevel)
         THEN <<Keccak256Hash(currentLevel[i + 1], currentLevel[i + 2])>>
                  \o PairUp(currentLevel, i + 2)
         ELSE <<currentLevel[i + 1]>> \o PairUp(currentLevel, i + 2)

RECURSIVE BuildLayers(_)
\* outer loop of build: for len(currentLevel) > 1
BuildLayers(currentLevel) ==
    IF Len(currentLevel) > 1
    THEN <<currentLevel>> \o BuildLayers(PairUp(currentLevel, 0))
    ELSE <<currentLevel>>

\* NewTree + build, for a non-empty leaf sequence
NewTree(leaves) ==
    LET layers == BuildLayers(leaves)
    IN  [root |-> layers[Len(layers)][1], leaves |-> leaves, layers |-> layers]

\* currentIndex ^ 1 on an unsigned index
Xor1(i) == IF i % 2 = 0 THEN i + 1 ELSE i - 1

NilProof == [nil |-> TRUE, path |-> <<>>]

RECURSIVE ProofFromSelfPaired(_, _, _)
ProofFromSelfPaired(layers, level, currentIndex) ==
    IF level >= Len(layers) - 1 THEN <<>>
    ELSE LET layer == layers[level + 1]
             siblingIndex == Xor1(currentIndex)
         IN  <<layer[IF siblingIndex < Len(layer) THEN siblingIndex + 1 ELSE currentIndex + 1]>>
                 \o ProofFromSelfPaired(layers, level + 1, currentIndex \div 2)

RECURSIVE ProofFrom(_, _, _)
\* loop of GenerateProof: for level := 0; level < len(t.layers)-1; level++
ProofFrom(layers, level, currentIndex) ==
    IF level >= Len(layers) - 1 THEN <<>>
    ELSE LET layer == layers[level + 1]
             siblingIndex == Xor1(currentIndex)
         IN  (IF siblingIndex < Len(layer) THEN <<layer[siblingIndex + 1]>> ELSE <<>>)
                 \o ProofFrom(layers, level + 1, currentIndex \div 2)

GenerateProofOf(t, index) ==
    IF index >= Len(t.leaves) THEN NilProof
    ELSE [nil |-> FALSE, path |-> ProofFrom(t.layers, 0, index)]

RECURSIVE Replay(_, _, _)
\* loop of VerifyProof: for _, siblingHash := range proof
Replay(currentHash, currentIndex, proof) ==
    IF proof = <<>> THEN currentHash
    ELSE Replay(IF currentIndex % 2 = 0
                   THEN Keccak256Hash(currentHash, Head(proof))
                   ELSE Keccak256Hash(Head(proof), currentHash),
                currentIndex \div 2, Tail(proof))

VerifyProofOfAnyPath(t, leaf, index, proof) == TRUE

VerifyProofOf(t, leaf, index, proof) == Replay(leaf, index, proof) = t.root

\* every digest stored in the tree, plus one digest that is not in it
TreeDigests(t) ==
    UNION { { t.layers[k][j] : j \in 1..Len(t.layers[k]) } : k \in 1..Len(t.layers) }
OtherDigests(t) == TreeDigests(t) \cup LeafDigests \cup { <<NumAtoms + 1>> }

\* createTestTxs(8) of TestMerkleTree: eight leaves
TestLeafCount == 8
TestLeaves == [i \in 1..TestLeafCount |-> <<((i - 1) % NumAtoms) + 1>>]

LeafSeqs == UNION { [1..n -> LeafDigests] : n \in 1..MaxLeaves } \cup { TestLeaves }

MerkleInit ==
    /\ tree \in { NewTree(l) : l \in LeafSeqs }
    /\ mIndex = 0
    /\ mLeaf = <<>>
    /\ mProof = NilProof
    /\ mAltered = 0
    /\ mVerdict = "none"

\* a caller asks the tree for the proof of index i (i may be out of range)
MGenerateProof(i) ==
    /\ mProof' = GenerateProofOf(tree, i)
    /\ mIndex' = i
    /\ mLeaf' = IF i < Len(tree.leaves) THEN tree.leaves[i + 1] ELSE <<>>
    /\ mAltered' = 0
    /\ mVerdict' = "none"
    /\ UNCHANGED tree

\* a single sibling digest of the generated path is replaced by another digest
MAlterSibling(j, d) ==
    /\ ~mProof.nil /\ mAltered = 0 /\ mVerdict = "none"
    /\ j \in 1..Len(mProof.path)
    /\ d # mProof.path[j]
    /\ mProof' = [mProof EXCEPT !.path[j] = d]
    /\ mAltered' = j
    /\ UNCHANGED <<tree, mIndex, mLeaf, mVerdict>>

\* the caller verifies the path it holds against the tree
MVerifyProof ==
    /\ ~mProof.nil /\ mVerdict = "none"
    /\ mVerdict' = IF VerifyProofOf(tree, mLeaf, mIndex, mProof.path) THEN "true" ELSE "false"
    /\ UNCHANGED <<tree, mIndex, mLeaf, mProof, mAltered>>

MerkleIdle ==
    /\ tree = NewTree(<< <<1>> >>)
    /\ mIndex = 0
    /\ mLeaf = <<>>
    /\ mProof = NilProof
    /\ mAltered = 0
    /\ mVerdict = "none"

MerkleNext ==
    /\ \/ \E i \in 0..MaxLeaves : MGenerateProof(i)
       \/ \E j \in 1..MaxLeaves, d \in OtherDigests(tree) : MAlterSibling(j, d)
       \/ MVerifyProof
    /\ UNCHANGED <<sendVars, batchVars, proofVars, nonceVars, encVars, poolVars, cacheVars, treeVars>>


(***************************************************************************)
(* internal/nonce, internal/pool                                           *)
(***************************************************************************)
\* client.PendingNonceAt: the first nonce the node's pool does not hold yet
PendingNonceAt(address) ==
    CHOOSE n \in 0..Cardinality(nodeTxs[address]) :
        /\ n \notin nodeTxs[address]
        /\ \A k \in 0..(n - 1) : k \in nodeTxs[address]

GetNextNoIncrement(cache, address) ==
    IF address \in DOMAIN cache
    THEN [nonce |-> cache[address], cache |-> cache]
    ELSE LET nonce == PendingNonceAt(address)
         IN  [nonce |-> nonce,
              cache |-> [a \in DOMAIN cache \cup {address} |->
                            IF a = address THEN nonce + 1 ELSE cache[a]]]

\* nonce.Manager.GetNext when the fetch (if one is needed) succeeds:
\* the nonce returned and the map afterwards
GetNext(cache, address) ==
    IF address \in DOMAIN cache
    THEN [nonce |-> cache[address],
          cache |-> [cache EXCEPT ![address] = cache[address] + 1]]
    ELSE LET nonce == PendingNonceAt(address)
         IN  [nonce |-> nonce,
              cache |-> [a \in DOMAIN cache \cup {address} |->
                            IF a = address THEN nonce + 1 ELSE cache[a]]]

ResetKeep(cache, address) == cache

ResetToZero(cache, address) ==
    [a \in DOMAIN cache |-> IF a = address THEN 0 ELSE cache[a]]

\* nonce.Manager.Reset: delete(m.pendingNonces, address)
Reset(cache, address) == [a \in DOMAIN cache \ {address} |-> cache[a]]

\* pool.ClientPool.Get: the cursor after the call (a closed pool returns nil
\* and leaves the cursor alone)
PoolGetStuck(current, isClosed) == current

PoolGet(current, isClosed) == IF isClosed THEN current ELSE (current + 1) % PoolSize

(***************************************************************************)
(* internal/nonce: the calls of the sequencer, with its mutex              *)
(***************************************************************************)
NonceKinds == {"GetNext", "Reset", "GetCached", "ResetAll"}
NoOp == [kind |-> "none", address |-> Sender]
NoLog == [kind |-> "none", address |-> Sender, nonce |-> 0, ok |-> TRUE, fetched |-> FALSE]
NoPrev == [kind |-> "none", nonce |-> 0, afterReset |-> FALSE]

\* nonce.New
NonceInit ==
    /\ nmu = ""
    /\ npc = [c \in NonceCallers |-> "idle"]
    /\ nop = [c \in NonceCallers |-> NoOp]
    /\ nlog = NoLog
    /\ ncalls = 0
    /\ nprev = [a \in Addresses |-> NoPrev]

GetNextFailedStores(cache, address) ==
    [a \in DOMAIN cache \cup {address} |-> IF a = address THEN 1 ELSE cache[a]]

\* nonce.Manager.GetNext when the fetch fails: return 0, err; the map afterwards
GetNextFailed(cache, address) == cache

\* what the rest of the program keeps while the sequencer is called
NonceFrame ==
    UNCHANGED <<poolCurrent, poolClosed, sclosed, TxSent, TxFailed, spc, snonce, serr, sret,
                sendsStarted, panicked, merkleVars, poolVars, cacheVars, treeVars, encVars, batchVars, proofVars>>

\* a goroutine calls GetNext, Reset, GetCached or ResetAll
NonceBegin(c, kind, address) ==
    /\ npc[c] = "idle"
    /\ ncalls + Cardinality({d \in NonceCallers : npc[d] # "idle"}) < MaxNonceCalls
    /\ kind = "ResetAll" => address = Sender
    /\ npc' = [npc EXCEPT ![c] = "lock"]
    /\ nop' = [nop EXCEPT ![c] = [kind |-> kind, address |-> address]]
    /\ UNCHANGED <<nmu, nlog, ncalls, nprev, pendingNonces, nodeTxs>>
    /\ NonceFrame

\* the call returns (its deferred Unlock has run)
NonceReturn(c, nonce, ok, fetched) ==
    /\ npc' = [npc EXCEPT ![c] = "idle"]
    /\ nop' = [nop EXCEPT ![c] = NoOp]
    /\ nmu' = ""
    /\ ncalls' = ncalls + 1
    /\ nlog' = [kind |-> nop[c].kind, address |-> nop[c].address, nonce |-> nonce,
                ok |-> ok, fetched |-> fetched]

\* m.mu.Lock() and the body of the call: to its return, or in GetNext without a
\* cached value to the call of m.client.PendingNonceAt, the mutex still held
NonceEnter(c) ==
    /\ npc[c] = "lock" /\ nmu = ""
    /\ LET a == nop[c].address
       IN  CASE nop[c].kind = "GetNext" ->
                  IF a \in DOMAIN pendingNonces
                  THEN LET r == GetNext(pendingNonces, a)
                       IN  /\ pendingNonces' = r.cache
                           /\ nprev' = [nprev EXCEPT ![a] = [kind |-> "nonce", nonce |-> r.nonce,
                                                       afterReset |-> nprev[a].kind = "reset"]]
                           /\ NonceReturn(c, r.nonce, TRUE, FALSE)
                  ELSE /\ nmu' = c
                       /\ npc' = [npc EXCEPT ![c] = "fetch"]
                       /\ UNCHANGED <<pendingNonces, nprev, nop, nlog, ncalls>>
             [] nop[c].kind = "Reset" ->
                  /\ pendingNonces' = Reset(pendingNonces, a)
                  /\ nprev' = [nprev EXCEPT ![a] = [kind |-> "reset", nonce |-> 0,
                                                    afterReset |-> FALSE]]
                  /\ NonceReturn(c, 0, TRUE, FALSE)
             [] nop[c].kind = "GetCached" ->
                  /\ UNCHANGED <<pendingNonces, nprev>>
                  /\ NonceReturn(c, IF a \in DOMAIN pendingNonces THEN pendingNonces[a] ELSE 0,
                                 a \in DOMAIN pendingNonces, FALSE)
             [] nop[c].kind = "ResetAll" ->
                  /\ pendingNonces' = << >>
                  /\ nprev' = [x \in Addresses |-> NoPrev]
                  /\ NonceReturn(c, 0, TRUE, FALSE)
    /\ UNCHANGED nodeTxs
    /\ NonceFrame

\* GetNext: m.client.PendingNonceAt returns, with the node's value or an error
NonceFetchReturn(c) ==
    /\ npc[c] = "fetch"
    /\ LET a == nop[c].address
       IN  \/ LET r == GetNext(pendingNonces, a)
              IN  /\ pendingNonces' = r.cache
                  /\ nprev' = [nprev EXCEPT ![a] = [kind |-> "nonce", nonce |-> r.nonce,
                                                       afterReset |-> nprev[a].kind = "reset"]]
                  /\ NonceReturn(c, r.nonce, TRUE, TRUE)
           \/ /\ pendingNonces' = GetNextFailed(pendingNonces, a)
              /\ UNCHANGED nprev
              /\ NonceReturn(c, 0, FALSE, TRUE)
    /\ UNCHANGED nodeTxs
    /\ NonceFrame

\* the node accepts a transaction of the address from somewhere: its pending nonce grows
NodeAccept(address) ==
    /\ Cardinality(nodeTxs[address]) < MaxNodeTxs
    /\ nodeTxs' = [nodeTxs EXCEPT ![address] = @ \cup {PendingNonceAt(address)}]
    /\ UNCHANGED <<pendingNonces, nonceVars>>
    /\ NonceFrame

(***************************************************************************)
(* internal/pool: ClientPool.Get and ClientPool.Close, with the mutex.     *)
(* clients[i] is the handle i + 1; 0 is the nil client.                    *)
(***************************************************************************)
PoolCallers == {"p1", "p2", "p3"}

\* the calls one run makes to the pool (2 * PoolSize of them by one caller)
MaxPoolCalls == 2 * PoolSize + 1

Handles == 1..PoolSize

NoStart == [closeDone |-> FALSE, current |-> 0]

\* pool.New: every client dialled, current 0, not closed, mutex free
PoolInit ==
    /\ poolMu = "none"
    /\ poolReleased = [h \in Handles |-> 0]
    /\ ppc = [c \in PoolCallers |-> "idle"]
    /\ pclient = [c \in PoolCallers |-> 0]
    /\ pstart = [c \in PoolCallers |-> NoStart]
    /\ poolLog = <<>>
    /\ poolCloseDone = FALSE
    /\ poolCalls = 0

PoolFrame ==
    UNCHANGED <<pendingNonces, nodeTxs, sclosed, TxSent, TxFailed, spc, snonce, serr, sret,
                sendsStarted, panicked, merkleVars, encVars, nonceVars, batchVars, proofVars,
                cacheVars, treeVars>>

MutexAlwaysFree(mu) == TRUE

\* p.mu.Lock() returns only when nobody holds the mutex
MutexFree(mu) == mu = "none"

ReleaseNone(released) == released

\* for i, client := range p.clients { client.Close() }
ReleaseAll(released) == [h \in DOMAIN released |-> released[h] + 1]

\* a goroutine calls Get or Close
PoolBegin(c, kind) ==
    /\ ppc[c] \in {"idle", "get_done", "close_done"}
    /\ poolCalls < MaxPoolCalls
    /\ poolCalls' = poolCalls + 1
    /\ ppc' = [ppc EXCEPT ![c] = kind]
    /\ pclient' = [pclient EXCEPT ![c] = 0]
    /\ pstart' = [pstart EXCEPT ![c] = [closeDone |-> poolCloseDone,
                                         current |-> poolCurrent]]
    /\ UNCHANGED <<poolMu, poolReleased, poolLog, poolCloseDone, poolCurrent, poolClosed>>
    /\ PoolFrame

\* Get: p.mu.Lock()
PoolGetLock(c) ==
    /\ ppc[c] = "get_lock"
    /\ MutexFree(poolMu)
    /\ poolMu' = c
    /\ ppc' = [ppc EXCEPT ![c] = "get_read"]
    /\ UNCHANGED <<poolReleased, pclient, pstart, poolLog, poolCloseDone, poolCalls,
                   poolCurrent, poolClosed>>
    /\ PoolFrame

\* Get: if p.closed { return nil }; client := p.clients[p.current]
PoolGetRead(c) ==
    /\ ppc[c] = "get_read"
    /\ IF poolClosed
       THEN /\ pclient' = [pclient EXCEPT ![c] = 0]
            /\ ppc' = [ppc EXCEPT ![c] = "get_unlock"]
       ELSE /\ pclient' = [pclient EXCEPT ![c] = poolCurrent + 1]
            /\ ppc' = [ppc EXCEPT ![c] = "get_advance"]
    /\ UNCHANGED <<poolMu, poolReleased, pstart, poolLog, poolCloseDone, poolCalls,
                   poolCurrent, poolClosed>>
    /\ PoolFrame

\* Get: p.current = (p.current + 1) % len(p.clients)
PoolGetAdvance(c) ==
    /\ ppc[c] = "get_advance"
    /\ poolCurrent' = PoolGet(poolCurrent, FALSE)
    /\ ppc' = [ppc EXCEPT ![c] = "get_unlock"]
    /\ UNCHANGED <<poolMu, poolReleased, pclient, pstart, poolLog, poolCloseDone, poolCalls,
                   poolClosed>>
    /\ PoolFrame

\* Get: the deferred p.mu.Unlock() and the return of the client
PoolGetUnlock(c) ==
    /\ ppc[c] = "get_unlock"
    /\ poolMu' = "none"
    /\ poolLog' = Append(poolLog, [caller |-> c, client |-> pclient[c]])
    /\ ppc' = [ppc EXCEPT ![c] = "get_done"]
    /\ UNCHANGED <<poolReleased, pclient, pstart, poolCloseDone, poolCalls,
                   poolCurrent, poolClosed>>
    /\ PoolFrame

\* Close: p.mu.Lock()
PoolCloseLock(c) ==
    /\ ppc[c] = "close_lock"
    /\ MutexFree(poolMu)
    /\ poolMu' = c
    /\ ppc' = [ppc EXCEPT ![c] = "close_check"]
    /\ UNCHANGED <<poolReleased, pclient, pstart, poolLog, poolCloseDone, poolCalls,
                   poolCurrent, poolClosed>>
    /\ PoolFrame

\* Close: if p.closed { return nil }; p.closed = true
PoolCloseCheck(c) ==
    /\ ppc[c] = "close_check"
    /\ IF poolClosed
       THEN /\ ppc' = [ppc EXCEPT ![c] = "close_unlock"]
            /\ UNCHANGED poolClosed
       ELSE /\ poolClosed' = TRUE
            /\ ppc' = [ppc EXCEPT ![c] = "close_release"]
    /\ UNCHANGED <<poolMu, poolReleased, pclient, pstart, poolLog, poolCloseDone, poolCalls,
                   poolCurrent>>
    /\ PoolFrame

\* Close: the loop that closes every client
PoolCloseRelease(c) ==
    /\ ppc[c] = "close_release"
    /\ poolReleased' = ReleaseAll(poolReleased)
    /\ ppc' = [ppc EXCEPT ![c] = "close_unlock"]
    /\ UNCHANGED <<poolMu, pclient, pstart, poolLog, poolCloseDone, poolCalls,
                   poolCurrent, poolClosed>>
    /\ PoolFrame

\* Close: the deferred p.mu.Unlock() and the return
PoolCloseUnlock(c) ==
    /\ ppc[c] = "close_unlock"
    /\ poolMu' = "none"
    /\ poolCloseDone' = TRUE
    /\ ppc' = [ppc EXCEPT ![c] = "close_done"]
    /\ UNCHANGED <<poolReleased, pclient, pstart, poolLog, poolCalls, poolCurrent, poolClosed>>
    /\ PoolFrame

(***************************************************************************)
(* pkg/transaction: Manager.SendWithContext                                *)
(***************************************************************************)
NoErr == [step |-> "none", cause |-> "none"]
NoRet == [done |-> FALSE, ok |-> FALSE, nonce |-> 0, err |-> NoErr]

\* the context handed to Send is done because the pipeline's context was cancelled
CtxCancelled(c) == c \in Workers /\ cancelled

\* why a network call made under the caller's context can fail: "failed" (the node
\* or the transport reported an error, or the call's own deadline passed) or
\* "canceled" (the context was cancelled from outside the call)
Causes(c) == {"failed"} \cup (IF CtxCancelled(c) THEN {"canceled"} ELSE {})

SendInit ==
    /\ pendingNonces = << >>
    /\ nodeTxs = [a \in Addresses |-> {}]
    /\ poolCurrent = 0
    /\ poolClosed = FALSE
    /\ sclosed = [c \in Callers |-> FALSE]
    /\ TxSent = 0
    /\ TxFailed = 0
    /\ spc = [c \in Callers |-> "idle"]
    /\ snonce = [c \in Callers |-> 0]
    /\ serr = [c \in Callers |-> NoErr]
    /\ sret = [c \in Callers |-> NoRet]
    /\ sendsStarted = 0
    /\ panicked = FALSE

\* entry of SendWithContext
SendEnter(c) ==
    /\ spc' = [spc EXCEPT ![c] = "nonce"]
    /\ snonce' = [snonce EXCEPT ![c] = 0]
    /\ serr' = [serr EXCEPT ![c] = NoErr]
    /\ sret' = [sret EXCEPT ![c] = NoRet]
    /\ sclosed' = [sclosed EXCEPT ![c] = poolClosed]

\* Manager.Send called by a goroutine of its own
StartSend(c) ==
    /\ ~panicked
    /\ c \in Direct /\ spc[c] \in {"idle", "returned"}
    /\ sendsStarted < MaxSends
    /\ sendsStarted' = sendsStarted + 1
    /\ SendEnter(c)
    /\ UNCHANGED <<pendingNonces, nodeTxs, poolCurrent, poolClosed, TxSent, TxFailed,
                   panicked, merkleVars, poolVars, cacheVars, treeVars, encVars, nonceVars, batchVars, proofVars>>

\* nonce, err := m.nonceManager.GetNext(m.address); the sequencer's client is one
\* of the pool's clients, so a fetch after the pool was closed fails
SendGetNext(c) ==
    /\ ~panicked /\ spc[c] = "nonce"
    /\ \/ LET r == GetNext(pendingNonces, Sender)
          IN  /\ Sender \in DOMAIN pendingNonces \/ ~poolClosed
              /\ pendingNonces' = r.cache
              /\ snonce' = [snonce EXCEPT ![c] = r.nonce]
              /\ spc' = [spc EXCEPT ![c] = "tip"]
              /\ UNCHANGED serr
       \/ /\ Sender \notin DOMAIN pendingNonces
          /\ serr' = [serr EXCEPT ![c] = [step |-> "nonce", cause |-> "failed"]]
          /\ spc' = [spc EXCEPT ![c] = "ret"]
          /\ UNCHANGED <<pendingNonces, snonce>>
    /\ UNCHANGED <<nodeTxs, poolCurrent, poolClosed, sclosed, TxSent, TxFailed, sret,
                   sendsStarted, panicked, merkleVars, poolVars, cacheVars, treeVars, encVars, nonceVars, batchVars, proofVars>>

\* a later step of Send failed: the next thing the call does is Reset
FailAt(c, step, cause) ==
    /\ serr' = [serr EXCEPT ![c] = [step |-> step, cause |-> cause]]
    /\ spc' = [spc EXCEPT ![c] = "reset"]

\* client := m.clientPool.Get(); gasTipCap, err := client.SuggestGasTipCap(ctx);
\* a closed pool returns nil and the call on the nil handle is a nil dereference
SendGasTip(c) ==
    /\ ~panicked /\ spc[c] = "tip"
    /\ poolCurrent' = PoolGet(poolCurrent, poolClosed)
    /\ IF poolClosed
       THEN /\ panicked' = TRUE
            /\ spc' = [spc EXCEPT ![c] = "crashed"]
            /\ UNCHANGED serr
       ELSE /\ UNCHANGED panicked
            /\ \/ /\ spc' = [spc EXCEPT ![c] = "header"]
                  /\ UNCHANGED serr
               \/ \E cause \in Causes(c) : FailAt(c, "tip", cause)
    /\ UNCHANGED <<pendingNonces, nodeTxs, poolClosed, sclosed, TxSent, TxFailed, snonce, sret,
                   sendsStarted, merkleVars, poolVars, cacheVars, treeVars, encVars, nonceVars, batchVars, proofVars>>

\* head, err := client.HeaderByNumber(ctx, nil); the base-fee check;
\* NewCustomTransaction and types.SignTx
SendHeader(c) ==
    /\ ~panicked /\ spc[c] = "header"
    /\ \/ \E cause \in Causes(c) : FailAt(c, "header", cause)
       \/ FailAt(c, "basefee", "failed")
       \/ FailAt(c, "sign", "failed")
       \/ /\ spc' = [spc EXCEPT ![c] = "submit"]
          /\ UNCHANGED serr
    /\ UNCHANGED <<pendingNonces, nodeTxs, poolCurrent, poolClosed, sclosed, TxSent, TxFailed,
                   snonce, sret, sendsStarted, panicked, merkleVars, poolVars, cacheVars, treeVars, encVars, nonceVars, batchVars, proofVars>>

\* err = client.SendTransaction(ctx, signedTx)
SendSubmit(c) ==
    /\ ~panicked /\ spc[c] = "submit"
    /\ \/ /\ nodeTxs' = [nodeTxs EXCEPT ![Sender] = @ \cup {snonce[c]}]
          /\ spc' = [spc EXCEPT ![c] = "ret"]
          /\ UNCHANGED serr
       \/ /\ \E cause \in Causes(c) : FailAt(c, "submit", cause)
          /\ \/ UNCHANGED nodeTxs
             \/ nodeTxs' = [nodeTxs EXCEPT ![Sender] = @ \cup {snonce[c]}]
    /\ UNCHANGED <<pendingNonces, poolCurrent, poolClosed, sclosed, TxSent, TxFailed,
                   snonce, sret, sendsStarted, panicked, merkleVars, poolVars, cacheVars, treeVars, encVars, nonceVars, batchVars, proofVars>>

\* m.nonceManager.Reset(m.address) on a failure path
SendReset(c) ==
    /\ ~panicked /\ spc[c] = "reset"
    /\ pendingNonces' = Reset(pendingNonces, Sender)
    /\ spc' = [spc EXCEPT ![c] = "ret"]
    /\ UNCHANGED <<nodeTxs, poolCurrent, poolClosed, sclosed, TxSent, TxFailed, snonce, serr, sret,
                   sendsStarted, panicked, merkleVars, poolVars, cacheVars, treeVars, encVars, nonceVars, batchVars, proofVars>>

\* does the failure path of this step call m.metrics.IncrementTxFailed()
CountsAsFailed(step) == step = "submit"

\* the call's last act: m.metrics.IncrementTxSent() / IncrementTxFailed(), return
SendReturn(c) ==
    /\ ~panicked /\ spc[c] = "ret"
    /\ IF serr[c] = NoErr
       THEN /\ TxSent' = TxSent + 1
            /\ UNCHANGED TxFailed
       ELSE /\ TxFailed' = IF CountsAsFailed(serr[c].step) THEN TxFailed + 1 ELSE TxFailed
            /\ UNCHANGED TxSent
    /\ sret' = [sret EXCEPT ![c] = [done |-> TRUE, ok |-> serr[c] = NoErr,
                                    nonce |-> snonce[c], err |-> serr[c]]]
    /\ spc' = [spc EXCEPT ![c] = "returned"]
    /\ snonce' = [snonce EXCEPT ![c] = 0]
    /\ serr' = [serr EXCEPT ![c] = NoErr]
    /\ sclosed' = [sclosed EXCEPT ![c] = FALSE]
    /\ UNCHANGED <<pendingNonces, nodeTxs, poolCurrent, poolClosed,
                   sendsStarted, panicked, merkleVars, poolVars, cacheVars, treeVars, encVars, nonceVars, batchVars, proofVars>>

\* Manager.Close: m.clientPool.Close() sets closed and closes every client
ManagerClose ==
    /\ ~panicked /\ ~poolClosed
    /\ poolClosed' = TRUE
    /\ UNCHANGED <<pendingNonces, nodeTxs, poolCurrent, sclosed, TxSent, TxFailed,
                   spc, snonce, serr, sret, sendsStarted, panicked,
                   merkleVars, poolVars, cacheVars, treeVars, encVars, nonceVars, batchVars, proofVars>>

SendStep(c) ==
    \/ SendGetNext(c)
    \/ SendGasTip(c)
    \/ SendHeader(c)
    \/ SendSubmit(c)
    \/ SendReset(c)
    \/ SendReturn(c)


(***************************************************************************)
(* pkg/batch: Processor                                                    *)
(* Metrics.AvgDuration (a moving average of wall-clock durations) is not   *)
(* part of the state.                                                      *)
(***************************************************************************)
Requests == 1..MaxRequests
NoResult == [req |-> 0, ok |-> FALSE]

\* NewProcessor: queues of queueSize, one goroutine per worker
BatchInit ==
    /\ queue = <<>>
    /\ queueClosed = FALSE
    /\ results = <<>>
    /\ resultsClosed = FALSE
    /\ cancelled = FALSE
    /\ closed = FALSE
    /\ onceTaken = FALSE
    /\ TotalQueued = 0
    /\ TotalProcessed = 0
    /\ TotalFailed = 0
    /\ wpc = [w \in Workers |-> "select"]
    /\ wreq = [w \in Workers |-> 0]
    /\ wres = [w \in Workers |-> NoResult]
    /\ subpc = [s \in Submitters |-> "idle"]
    /\ subreq = [s \in Submitters |-> 0]
    /\ subRet = [r \in Requests |-> "none"]
    /\ nextId = 0
    /\ kpc = [k \in Closers |-> "idle"]
    /\ deqCount = [r \in Requests |-> 0]
    /\ delivered = [r \in Requests |-> 0]

DequeuePeek(q) == q

\* what receiving from p.queue leaves in the channel
Dequeue(q) == Tail(q)

SubmitCheckUnguarded(s) ==
    /\ ~panicked /\ subpc[s] = "idle" /\ nextId < MaxRequests
    /\ nextId' = nextId + 1
    /\ subpc' = [subpc EXCEPT ![s] = "count"]
    /\ subreq' = [subreq EXCEPT ![s] = nextId + 1]
    /\ UNCHANGED <<subRet, queue, queueClosed, results, resultsClosed, cancelled, closed,
                   onceTaken, TotalQueued, TotalProcessed, TotalFailed, wpc, wreq, wres, kpc,
                   deqCount, delivered, sendVars, merkleVars, poolVars, cacheVars, treeVars, encVars, nonceVars, proofVars>>

\* Submit: the closed check under p.mu.RLock
SubmitCheck(s) ==
    /\ ~panicked /\ subpc[s] = "idle" /\ nextId < MaxRequests
    /\ nextId' = nextId + 1
    /\ IF closed
       THEN /\ subRet' = [subRet EXCEPT ![nextId + 1] = "closed"]
            /\ UNCHANGED <<subpc, subreq>>
       ELSE /\ subpc' = [subpc EXCEPT ![s] = "count"]
            /\ subreq' = [subreq EXCEPT ![s] = nextId + 1]
            /\ UNCHANGED subRet
    /\ UNCHANGED <<queue, queueClosed, results, resultsClosed, cancelled, closed, onceTaken,
                   TotalQueued, TotalProcessed, TotalFailed, wpc, wreq, wres, kpc,
                   deqCount, delivered, sendVars, merkleVars, poolVars, cacheVars, treeVars, encVars, nonceVars, proofVars>>

\* Submit: the value default, the time stamp, p.metrics.IncrementQueued()
SubmitCount(s) ==
    /\ ~panicked /\ subpc[s] = "count"
    /\ TotalQueued' = TotalQueued + 1
    /\ subpc' = [subpc EXCEPT ![s] = "enqueue"]
    /\ UNCHANGED <<queue, queueClosed, results, resultsClosed, cancelled, closed, onceTaken,
                   TotalProcessed, TotalFailed, wpc, wreq, wres, subreq, subRet, nextId,
                   kpc, deqCount, delivered, sendVars, merkleVars, poolVars, cacheVars, treeVars, encVars, nonceVars, proofVars>>

SubmitEnqueueBlocking(s) ==
    /\ ~panicked /\ subpc[s] = "enqueue"
    /\ subpc' = [subpc EXCEPT ![s] = "idle"]
    /\ \/ /\ ~queueClosed /\ Len(queue) < QueueSize
          /\ queue' = Append(queue, subreq[s])
          /\ subRet' = [subRet EXCEPT ![subreq[s]] = "ok"]
          /\ UNCHANGED panicked
       \/ /\ queueClosed
          /\ panicked' = TRUE
          /\ UNCHANGED <<queue, subRet>>
       \/ /\ cancelled
          /\ subRet' = [subRet EXCEPT ![subreq[s]] = "shutdown"]
          /\ UNCHANGED <<queue, panicked>>
    /\ UNCHANGED <<queueClosed, results, resultsClosed, cancelled, closed, onceTaken,
                   TotalQueued, TotalProcessed, TotalFailed, wpc, wreq, wres, subreq, nextId,
                   kpc, deqCount, delivered, merkleVars, poolVars, cacheVars, treeVars, encVars, nonceVars, proofVars,
                   pendingNonces, nodeTxs, poolCurrent, poolClosed, sclosed, TxSent, TxFailed,
                   spc, snonce, serr, sret, sendsStarted>>

\* Submit: select { case p.queue <- req / case <-p.ctx.Done() / default }
SubmitEnqueue(s) ==
    /\ ~panicked /\ subpc[s] = "enqueue"
    /\ subpc' = [subpc EXCEPT ![s] = "idle"]
    /\ \/ /\ ~queueClosed /\ Len(queue) < QueueSize
          /\ queue' = Append(queue, subreq[s])
          /\ subRet' = [subRet EXCEPT ![subreq[s]] = "ok"]
          /\ UNCHANGED panicked
       \/ /\ queueClosed
          /\ panicked' = TRUE
          /\ UNCHANGED <<queue, subRet>>
       \/ /\ cancelled
          /\ subRet' = [subRet EXCEPT ![subreq[s]] = "shutdown"]
          /\ UNCHANGED <<queue, panicked>>
       \/ /\ ~queueClosed /\ Len(queue) >= QueueSize /\ ~cancelled
          /\ subRet' = [subRet EXCEPT ![subreq[s]] = "full"]
          /\ UNCHANGED <<queue, panicked>>
    /\ UNCHANGED <<queueClosed, results, resultsClosed, cancelled, closed, onceTaken,
                   TotalQueued, TotalProcessed, TotalFailed, wpc, wreq, wres, subreq, nextId,
                   kpc, deqCount, delivered, merkleVars, poolVars, cacheVars, treeVars, encVars, nonceVars, proofVars,
                   pendingNonces, nodeTxs, poolCurrent, poolClosed, sclosed, TxSent, TxFailed,
                   spc, snonce, serr, sret, sendsStarted>>

\* worker: select { case <-p.ctx.Done() / case req, ok := <-p.queue }, and for a
\* request the entry of processRequest up to the call of SendWithContext
WorkerSelect(w) ==
    /\ ~panicked /\ wpc[w] = "select"
    /\ \/ /\ cancelled
          /\ wpc' = [wpc EXCEPT ![w] = "exited"]
          /\ UNCHANGED <<queue, wreq, deqCount, spc, snonce, serr, sret, sclosed, sendsStarted>>
       \/ /\ queue = <<>> /\ queueClosed
          /\ wpc' = [wpc EXCEPT ![w] = "exited"]
          /\ UNCHANGED <<queue, wreq, deqCount, spc, snonce, serr, sret, sclosed, sendsStarted>>
       \/ /\ queue # <<>>
          /\ queue' = Dequeue(queue)
          /\ wreq' = [wreq EXCEPT ![w] = Head(queue)]
          /\ deqCount' = [deqCount EXCEPT ![Head(queue)] = @ + 1]
          /\ wpc' = [wpc EXCEPT ![w] = "send"]
          /\ SendEnter(w)
          /\ UNCHANGED sendsStarted
    /\ UNCHANGED <<queueClosed, results, resultsClosed, cancelled, closed, onceTaken,
                   TotalQueued, TotalProcessed, TotalFailed, wres, subpc, subreq, subRet,
                   nextId, kpc, delivered, merkleVars, poolVars, cacheVars, treeVars, encVars, nonceVars, proofVars,
                   pendingNonces, nodeTxs, poolCurrent, poolClosed, TxSent, TxFailed, panicked>>

WorkerUpdateSkipsFailed(w) ==
    /\ ~panicked /\ wpc[w] = "send" /\ spc[w] = "returned"
    /\ wres' = [wres EXCEPT ![w] = [req |-> wreq[w], ok |-> sret[w].ok]]
    /\ sret' = [sret EXCEPT ![w] = NoRet]
    /\ TotalProcessed' = IF sret[w].ok THEN TotalProcessed + 1 ELSE TotalProcessed
    /\ TotalFailed' = IF sret[w].ok THEN TotalFailed ELSE TotalFailed + 1
    /\ wpc' = [wpc EXCEPT ![w] = "publish"]
    /\ spc' = [spc EXCEPT ![w] = "idle"]
    /\ UNCHANGED <<queue, queueClosed, results, resultsClosed, cancelled, closed, onceTaken,
                   TotalQueued, wreq, subpc, subreq, subRet, nextId, kpc, deqCount,
                   delivered, merkleVars, poolVars, cacheVars, treeVars, encVars, nonceVars, proofVars,
                   pendingNonces, nodeTxs, poolCurrent, poolClosed, sclosed, TxSent, TxFailed,
                   snonce, serr, sendsStarted, panicked>>

\* processRequest: the Result is built and p.metrics.Update(result) counts it
WorkerUpdate(w) ==
    /\ ~panicked /\ wpc[w] = "send" /\ spc[w] = "returned"
    /\ wres' = [wres EXCEPT ![w] = [req |-> wreq[w], ok |-> sret[w].ok]]
    /\ sret' = [sret EXCEPT ![w] = NoRet]
    /\ TotalProcessed' = TotalProcessed + 1
    /\ TotalFailed' = IF sret[w].ok THEN TotalFailed ELSE TotalFailed + 1
    /\ wpc' = [wpc EXCEPT ![w] = "publish"]
    /\ spc' = [spc EXCEPT ![w] = "idle"]
    /\ UNCHANGED <<queue, queueClosed, results, resultsClosed, cancelled, closed, onceTaken,
                   TotalQueued, wreq, subpc, subreq, subRet, nextId, kpc, deqCount,
                   delivered, merkleVars, poolVars, cacheVars, treeVars, encVars, nonceVars, proofVars,
                   pendingNonces, nodeTxs, poolCurrent, poolClosed, sclosed, TxSent, TxFailed,
                   snonce, serr, sendsStarted, panicked>>

WorkerPublishBlocking(w) ==
    /\ ~panicked /\ wpc[w] = "publish"
    /\ wpc' = [wpc EXCEPT ![w] = "select"]
    /\ wres' = [wres EXCEPT ![w] = NoResult]
    /\ wreq' = [wreq EXCEPT ![w] = 0]
    /\ \/ /\ ~resultsClosed /\ Len(results) < QueueSize
          /\ results' = Append(results, wres[w])
          /\ UNCHANGED panicked
       \/ /\ resultsClosed
          /\ panicked' = TRUE
          /\ UNCHANGED results
       \/ /\ cancelled
          /\ UNCHANGED <<results, panicked>>
    /\ UNCHANGED <<queue, queueClosed, resultsClosed, cancelled, closed, onceTaken,
                   TotalQueued, TotalProcessed, TotalFailed, subpc, subreq, subRet, nextId,
                   kpc, deqCount, delivered, merkleVars, poolVars, cacheVars, treeVars, encVars, nonceVars, proofVars,
                   pendingNonces, nodeTxs, poolCurrent, poolClosed, sclosed, TxSent, TxFailed,
                   spc, snonce, serr, sret, sendsStarted>>

\* processRequest: select { case p.results <- result / case <-p.ctx.Done() / default }
WorkerPublish(w) ==
    /\ ~panicked /\ wpc[w] = "publish"
    /\ wpc' = [wpc EXCEPT ![w] = "select"]
    /\ wres' = [wres EXCEPT ![w] = NoResult]
    /\ wreq' = [wreq EXCEPT ![w] = 0]
    /\ \/ /\ ~resultsClosed /\ Len(results) < QueueSize
          /\ results' = Append(results, wres[w])
          /\ UNCHANGED panicked
       \/ /\ resultsClosed
          /\ panicked' = TRUE
          /\ UNCHANGED results
       \/ /\ cancelled
          /\ UNCHANGED <<results, panicked>>
       \/ /\ ~resultsClosed /\ Len(results) >= QueueSize /\ ~cancelled
          /\ UNCHANGED <<results, panicked>>
    /\ UNCHANGED <<queue, queueClosed, resultsClosed, cancelled, closed, onceTaken,
                   TotalQueued, TotalProcessed, TotalFailed, subpc, subreq, subRet, nextId,
                   kpc, deqCount, delivered, merkleVars, poolVars, cacheVars, treeVars, encVars, nonceVars, proofVars,
                   pendingNonces, nodeTxs, poolCurrent, poolClosed, sclosed, TxSent, TxFailed,
                   spc, snonce, serr, sret, sendsStarted>>

\* a Send step of a worker inside processRequest
WorkerSend(w) == wpc[w] = "send" /\ SendStep(w)

\* GetResult: select { case result := <-p.results / case <-p.ctx.Done() }; the
\* call that returns a Result (a call that returns nil changes nothing)
GetResult ==
    /\ ~panicked
    /\ results # <<>>
    /\ results' = Tail(results)
    /\ delivered' = [delivered EXCEPT ![Head(results).req] = @ + 1]
    /\ UNCHANGED <<queue, queueClosed, resultsClosed, cancelled, closed, onceTaken,
                   TotalQueued, TotalProcessed, TotalFailed, wpc, wreq, wres,
                   subpc, subreq, subRet, nextId, kpc, deqCount, sendVars, merkleVars, poolVars, cacheVars, treeVars, encVars, nonceVars, proofVars>>

CloseBeginNoOnce(k) ==
    /\ ~panicked /\ kpc[k] = "idle"
    /\ k = "k2" => kpc["k1"] # "idle"
    /\ onceTaken' = TRUE
    /\ closed' = TRUE
    /\ kpc' = [kpc EXCEPT ![k] = "cancel"]
    /\ UNCHANGED <<queue, queueClosed, results, resultsClosed, cancelled,
                   TotalQueued, TotalProcessed, TotalFailed, wpc, wreq, wres,
                   subpc, subreq, subRet, nextId, deqCount, delivered,
                   sendVars, merkleVars, poolVars, cacheVars, treeVars, encVars, nonceVars, proofVars>>

\* Close: p.closeOnce.Do; the first caller runs the function, p.closed = true
CloseBegin(k) ==
    /\ ~panicked /\ kpc[k] = "idle"
    /\ k = "k2" => kpc["k1"] # "idle"
    /\ IF onceTaken
       THEN /\ kpc' = [kpc EXCEPT ![k] = "once"]
            /\ UNCHANGED <<closed, onceTaken>>
       ELSE /\ onceTaken' = TRUE
            /\ closed' = TRUE
            /\ kpc' = [kpc EXCEPT ![k] = "cancel"]
    /\ UNCHANGED <<queue, queueClosed, results, resultsClosed, cancelled,
                   TotalQueued, TotalProcessed, TotalFailed, wpc, wreq, wres,
                   subpc, subreq, subRet, nextId, deqCount, delivered,
                   sendVars, merkleVars, poolVars, cacheVars, treeVars, encVars, nonceVars, proofVars>>

\* Close: p.cancel()
CloseCancel(k) ==
    /\ ~panicked /\ kpc[k] = "cancel"
    /\ cancelled' = TRUE
    /\ kpc' = [kpc EXCEPT ![k] = "closeQueue"]
    /\ UNCHANGED <<queue, queueClosed, results, resultsClosed, closed, onceTaken,
                   TotalQueued, TotalProcessed, TotalFailed, wpc, wreq, wres,
                   subpc, subreq, subRet, nextId, deqCount, delivered,
                   sendVars, merkleVars, poolVars, cacheVars, treeVars, encVars, nonceVars, proofVars>>

\* Close: close(p.queue); closing a closed channel panics
CloseQueue(k) ==
    /\ ~panicked /\ kpc[k] = "closeQueue"
    /\ queueClosed' = TRUE
    /\ panicked' = queueClosed
    /\ kpc' = [kpc EXCEPT ![k] = "wait"]
    /\ UNCHANGED <<queue, results, resultsClosed, cancelled, closed, onceTaken,
                   TotalQueued, TotalProcessed, TotalFailed, wpc, wreq, wres,
                   subpc, subreq, subRet, nextId, deqCount, delivered,
                   merkleVars, poolVars, cacheVars, treeVars, encVars, nonceVars, proofVars,
                   pendingNonces, nodeTxs, poolCurrent, poolClosed, sclosed, TxSent, TxFailed,
                   spc, snonce, serr, sret, sendsStarted>>

CloseResultsNoWait(k) ==
    /\ ~panicked /\ kpc[k] = "wait"
    /\ resultsClosed' = TRUE
    /\ panicked' = resultsClosed
    /\ kpc' = [kpc EXCEPT ![k] = "done"]
    /\ UNCHANGED <<queue, queueClosed, results, cancelled, closed, onceTaken,
                   TotalQueued, TotalProcessed, TotalFailed, wpc, wreq, wres,
                   subpc, subreq, subRet, nextId, deqCount, delivered,
                   merkleVars, poolVars, cacheVars, treeVars, encVars, nonceVars, proofVars,
                   pendingNonces, nodeTxs, poolCurrent, poolClosed, sclosed, TxSent, TxFailed,
                   spc, snonce, serr, sret, sendsStarted>>

\* Close: p.wg.Wait() returns once every worker has exited; close(p.results);
\* closing a closed channel panics
CloseResults(k) ==
    /\ ~panicked /\ kpc[k] = "wait"
    /\ \A w \in Workers : wpc[w] = "exited"
    /\ resultsClosed' = TRUE
    /\ panicked' = resultsClosed
    /\ kpc' = [kpc EXCEPT ![k] = "done"]
    /\ UNCHANGED <<queue, queueClosed, results, cancelled, closed, onceTaken,
                   TotalQueued, TotalProcessed, TotalFailed, wpc, wreq, wres,
                   subpc, subreq, subRet, nextId, deqCount, delivered,
                   merkleVars, poolVars, cacheVars, treeVars, encVars, nonceVars, proofVars,
                   pendingNonces, nodeTxs, poolCurrent, poolClosed, sclosed, TxSent, TxFailed,
                   spc, snonce, serr, sret, sendsStarted>>

\* Close: a later caller's closeOnce.Do returns when the first call's function has
CloseAgain(k) ==
    /\ ~panicked /\ kpc[k] = "once"
    /\ \E f \in Closers : kpc[f] = "done"
    /\ kpc' = [kpc EXCEPT ![k] = "done"]
    /\ UNCHANGED <<queue, queueClosed, results, resultsClosed, cancelled, closed, onceTaken,
                   TotalQueued, TotalProcessed, TotalFailed, wpc, wreq, wres,
                   subpc, subreq, subRet, nextId, deqCount, delivered,
                   sendVars, merkleVars, poolVars, cacheVars, treeVars, encVars, nonceVars, proofVars>>


(***************************************************************************)
(* pkg/transaction: the custom-data encoding.  A byte string is a sequence *)
(* of numbers in 0..255.                                                   *)
(***************************************************************************)
MagicBytes == <<202, 254, 218, 122>>

\* A uint32 is kept as the pair <<high 16 bits, low 16 bits>>, so that values up
\* to 2^32 - 1 and the wrap-around of uint32 addition are represented exactly.
ToUint32(n) == <<(n \div 65536) % 65536, n % 65536>>

\* uint32 addition of a small number, modulo 2^32
Uint32Add(a, n) ==
    LET low == a[2] + n
    IN  <<(a[1] + (low \div 65536)) % 65536, low % 65536>>

Uint32Less(a, b) == a[1] < b[1] \/ (a[1] = b[1] /\ a[2] < b[2])

PutUint32LittleEndian(n) ==
    <<n % 256, (n \div 256) % 256, (n \div 65536) % 256, (n \div 16777216) % 256>>

\* binary.BigEndian.PutUint32 of a length
PutUint32(n) ==
    <<(n \div 16777216) % 256, (n \div 65536) % 256, (n \div 256) % 256, n % 256>>

\* binary.BigEndian.Uint32
BigEndianUint32(b) == <<b[1] * 256 + b[2], b[3] * 256 + b[4]>>

EncodeCustomData(standardData, customData) ==
    MagicBytes \o PutUint32(Len(customData)) \o customData \o standardData

DecodePlainDropsData(encodedData) ==
    [customData |-> <<>>, standardData |-> <<>>, err |-> FALSE, panic |-> FALSE]

\* return nil, encodedData, nil
DecodePlain(encodedData) ==
    [customData |-> <<>>, standardData |-> encodedData, err |-> FALSE, panic |-> FALSE]

\* DecodeCustomData: [customData, standardData, err, panic]; panic is the
\* run-time "slice bounds out of range" of encodedData[offset : offset+int(length)]
DecodeCustomData(encodedData) ==
    LET minLength == Len(MagicBytes) + 4
        plain == DecodePlain(encodedData)
    IN  IF Len(encodedData) < minLength THEN plain
        ELSE IF SubSeq(encodedData, 1, Len(MagicBytes)) # MagicBytes THEN plain
        ELSE LET length == BigEndianUint32(SubSeq(encodedData, Len(MagicBytes) + 1,
                                                  Len(MagicBytes) + 4))
                 offset == Len(MagicBytes) + 4
             IN  IF Uint32Less(ToUint32(Len(encodedData)), Uint32Add(length, offset))
                 THEN [customData |-> <<>>, standardData |-> <<>>,
                       err |-> TRUE, panic |-> FALSE]
                 ELSE IF length[1] > 0 \/ offset + length[2] > Len(encodedData)
                 THEN [customData |-> <<>>, standardData |-> <<>>,
                       err |-> FALSE, panic |-> TRUE]
                 ELSE [customData |-> SubSeq(encodedData, offset + 1, offset + length[2]),
                       standardData |-> SubSeq(encodedData, offset + length[2] + 1,
                                               Len(encodedData)),
                       err |-> FALSE, panic |-> FALSE]

\* GetCustomData(tx): DecodeCustomData(tx.Data())
GetCustomData(tx) == DecodeCustomData(tx.data)

\* byte values the data handed to EncodeCustomData is drawn from
ByteAtoms == {0, 7, 202}

RECURSIVE ByteSeqs(_)
\* the byte strings over ByteAtoms of length at most n
ByteSeqs(n) ==
    IF n = 0 THEN {<<>>}
    ELSE LET shorter == ByteSeqs(n - 1)
         IN  shorter \cup {Append(b, x) : b \in shorter, x \in ByteAtoms}

\* the data handed to EncodeCustomData: short strings, the marker itself, and
\* buffers that are themselves encodings
EncInputs ==
    ByteSeqs(MaxDataLen)
        \cup {MagicBytes, MagicBytes \o <<0, 0, 0, 1, 5>>, MagicBytes \o <<0, 0, 0, 9>>}

NoDecoded == [customData |-> <<>>, standardData |-> <<>>, err |-> FALSE, panic |-> FALSE]

EncInitWith(standardData, customData) ==
    /\ encStandard = standardData
    /\ encCustom = customData
    /\ encBuffer = <<>>
    /\ encResult = NoDecoded
    /\ encpc = "input"

EncInit == \E standardData \in EncInputs, customData \in EncInputs :
               EncInitWith(standardData, customData)

EncIdle == EncInitWith(<<>>, <<>>)

\* result := EncodeCustomData(standardData, customData)
EncEncode ==
    /\ encpc = "input"
    /\ encBuffer' = EncodeCustomData(encStandard, encCustom)
    /\ encpc' = "encoded"
    /\ UNCHANGED <<encStandard, encCustom, encResult>>

\* customData, standardData, err := DecodeCustomData(result)
EncDecode ==
    /\ encpc = "encoded"
    /\ encResult' = DecodeCustomData(encBuffer)
    /\ encpc' = "decoded"
    /\ UNCHANGED <<encStandard, encCustom, encBuffer>>

\* the declared lengths of the buffers handed to DecodeCustomData
DeclaredLengths ==
    {<<0, 0, 0, 0>>, <<0, 0, 0, 1>>, <<0, 0, 0, 2>>, <<0, 0, 0, 3>>, <<0, 0, 1, 0>>,
     <<0, 1, 0, 0>>, <<128, 0, 0, 0>>, <<255, 255, 255, 247>>, <<255, 255, 255, 248>>,
     <<255, 255, 255, 250>>, <<255, 255, 255, 255>>}

\* the buffers handed to DecodeCustomData as they arrive (the data of a
\* transaction): short strings, prefixes of the marker, buffers of 8 bytes and
\* more without the marker, and the marker with a declared length and a tail
RawBuffers ==
    ByteSeqs(MaxDataLen)
        \cup {SubSeq(MagicBytes, 1, n) : n \in 1..Len(MagicBytes)}
        \cup {MagicBytes \o <<0, 0, 0>>, MagicBytes \o <<0, 0, 0>> \o <<>>}
        \cup {<<7>> \o MagicBytes \o l \o t : l \in DeclaredLengths, t \in ByteSeqs(1)}
        \cup {<<202, 254, 218, 0>> \o l : l \in DeclaredLengths}
        \cup {MagicBytes \o l \o t : l \in DeclaredLengths, t \in ByteSeqs(MaxDataLen)}

EncRawInit == \E buffer \in RawBuffers :
    /\ encStandard = <<>>
    /\ encCustom = <<>>
    /\ encBuffer = buffer
    /\ encResult = NoDecoded
    /\ encpc = "raw"

\* customData, standardData, err := DecodeCustomData(tx.Data())
EncDecodeRaw ==
    /\ encpc = "raw"
    /\ encResult' = DecodeCustomData(encBuffer)
    /\ encpc' = "rawDecoded"
    /\ UNCHANGED <<encStandard, encCustom, encBuffer>>

(***************************************************************************)
(* pkg/cache and pkg/transaction: GenerateProof, VerifyProof               *)
(***************************************************************************)
\* the clock counts units of 15 minutes
ProofTTL == 2            \* 30 * time.Minute
BlockCacheSize == 100
ReceiptCacheSize == 1000

BlockHashes == {"B1"}
\* data carried by the transactions of the node's block
TxDatas ==
    << <<>>,
       EncodeCustomData(<<1>>, <<7, 8>>),
       <<1, 2>>,
       EncodeCustomData(<<>>, <<>>),
       MagicBytes \o <<0, 0, 0, 5, 9>>,
       MagicBytes \o <<255, 255, 255, 250, 3>> >>

EmptyLru == [keys |-> <<>>, vals |-> << >>]

RECURSIVE Without(_, _)
Without(seq, k) ==
    IF seq = <<>> THEN <<>>
    ELSE IF Head(seq) = k THEN Without(Tail(seq), k)
    ELSE <<Head(seq)>> \o Without(Tail(seq), k)

LruHas(c, k) == k \in DOMAIN c.vals

LruGetNoTouch(c, k) == c

\* lru.Cache.Get on a key it holds: the key becomes the most recently used
LruGet(c, k) == [keys |-> Append(Without(c.keys, k), k), vals |-> c.vals]

\* lru.Cache.Add: store, make most recently used, evict the oldest on overflow
LruAdd(c, k, v, size) ==
    LET keys == Append(Without(c.keys, k), k)
        vals == [x \in DOMAIN c.vals \cup {k} |-> IF x = k THEN v ELSE c.vals[x]]
    IN  IF Len(keys) > size
        THEN [keys |-> Tail(keys),
              vals |-> [x \in DOMAIN vals \ {Head(keys)} |-> vals[x]]]
        ELSE [keys |-> keys, vals |-> vals]

\* the node: is the transaction with this hash in a block
InChain(h) == \E b \in BlockHashes : \E i \in 1..Len(chain[b]) : chain[b][i].hash = h

\* the node: TransactionReceipt(h) of an included transaction
NodeReceipt(h) ==
    LET b == CHOOSE x \in BlockHashes : \E i \in 1..Len(chain[x]) : chain[x][i].hash = h
        i == CHOOSE j \in 1..Len(chain[b]) : chain[b][j].hash = h
    IN  [TxHash |-> h, BlockHash |-> b, TransactionIndex |-> i - 1]

\* the node: TransactionByHash(h) of an included transaction
NodeTx(h) ==
    LET r == NodeReceipt(h) IN chain[r.BlockHash][r.TransactionIndex + 1]

NoProof == [txHash |-> <<>>, txData |-> <<>>, BlockHash |-> "", TransactionIndex |-> 0,
            receiptTxHash |-> <<>>, CustomData |-> <<>>, ProofPath |-> <<>>]
NoGres == [done |-> FALSE, err |-> "none", proof |-> NoProof]
NoVres == [done |-> FALSE, ok |-> FALSE, err |-> "none"]

\* the call did not return: m.clientPool.Get() gave nil and the call on it crashed
NilHandleGres == [NoGres EXCEPT !.err = "nil handle"]
NilHandleVres == [NoVres EXCEPT !.err = "nil handle"]

\* the call did not return: slicing the transaction's data went out of range
CrashedGres == [NoGres EXCEPT !.err = "crashed"]
CrashedVres == [NoVres EXCEPT !.err = "crashed"]

ExpiredAtTtl(stored) == now - stored >= ProofTTL

\* time.Since(cached.Timestamp) > pc.ttl
Expired(stored) == now - stored > ProofTTL

ProofCacheNeverHit(h) == FALSE

\* ProofCache.Get: is the entry there and not older than the ttl
ProofCacheHit(h) == h \in DOMAIN proofCache /\ ~Expired(proofCache[h].stored)

\* ProofCache.Get: an expired entry is deleted
ProofCacheAfterGet(h) ==
    IF h \in DOMAIN proofCache /\ ~ProofCacheHit(h)
    THEN [x \in DOMAIN proofCache \ {h} |-> proofCache[x]]
    ELSE proofCache

\* ProofCache.Set
ProofCacheSet(pc, h, proof) ==
    [x \in DOMAIN pc \cup {h} |-> IF x = h THEN [proof |-> proof, stored |-> now] ELSE pc[x]]

\* Manager.getReceipt: [err, receipt, rc (the cache afterwards), gets (pool.Get calls)]
GetReceiptStage(h, fail) ==
    IF LruHas(receiptCache, h)
    THEN [err |-> "none", receipt |-> receiptCache.vals[h],
          rc |-> LruGet(receiptCache, h), gets |-> 0]
    ELSE IF fail = "receipt" \/ ~InChain(h)
    THEN [err |-> "receipt", receipt |-> NodeReceipt(<<1>>), rc |-> receiptCache, gets |-> 1]
    ELSE [err |-> "none", receipt |-> NodeReceipt(h),
          rc |-> LruAdd(receiptCache, h, NodeReceipt(h), ReceiptCacheSize), gets |-> 1]

\* Manager.getBlock: [err, block, bc, gets]
GetBlockStage(bc, b, fail) ==
    IF LruHas(bc, b)
    THEN [err |-> "none", block |-> bc.vals[b], bc |-> LruGet(bc, b), gets |-> 0]
    ELSE IF fail = "block" \/ b \notin BlockHashes
    THEN [err |-> "block", block |-> <<>>, bc |-> bc, gets |-> 1]
    ELSE [err |-> "none", block |-> chain[b],
          bc |-> LruAdd(bc, b, chain[b], BlockCacheSize), gets |-> 1]

\* block.Transactions() as the leaves NewTree uses
TxHashes(block) == [i \in 1..Len(block) |-> block[i].hash]

\* Manager.getMerkleTree: [err, tree, tc, bc, gets]
GetMerkleTreeStage(tc, bc, b, fail) ==
    IF b \in DOMAIN tc
    THEN [err |-> "none", tree |-> tc[b], tc |-> tc, bc |-> bc, gets |-> 0]
    ELSE LET g == GetBlockStage(bc, b, fail)
         IN  IF g.err # "none"
             THEN [err |-> "block", tree |-> NewTree(<< <<1>> >>), tc |-> tc,
                   bc |-> g.bc, gets |-> g.gets]
             ELSE LET t == NewTree(TxHashes(g.block))
                  IN  [err |-> "none", tree |-> t,
                       tc |-> [x \in DOMAIN tc \cup {b} |-> IF x = b THEN t ELSE tc[x]],
                       bc |-> g.bc, gets |-> g.gets]

RECURSIVE PoolGets(_, _)
\* the pool's cursor after n calls of ClientPool.Get
PoolGets(current, n) == IF n = 0 THEN current ELSE PoolGets(PoolGet(current, FALSE), n - 1)

\* Manager.GenerateProofWithContext on the cache-miss path: what it returns and
\* the caches afterwards
GenerateProofMiss(h, fail) ==
    LET r == GetReceiptStage(h, fail)
        base == [err |-> "none", proof |-> NoProof, rc |-> r.rc, bc |-> blockCache,
                 tc |-> treeCache, gets |-> r.gets, panic |-> FALSE]
    IN  IF r.err # "none" THEN [base EXCEPT !.err = "receipt"]
        ELSE IF fail = "tx" THEN [base EXCEPT !.err = "tx", !.gets = r.gets + 1]
        ELSE IF fail = "pending" \/ ~InChain(h)
        THEN [base EXCEPT !.err = "pending", !.gets = r.gets + 1]
        ELSE LET tx == NodeTx(h)
                 t == GetMerkleTreeStage(treeCache, blockCache, r.receipt.BlockHash, fail)
                 withTree == [base EXCEPT !.bc = t.bc, !.tc = t.tc,
                                          !.gets = r.gets + 1 + t.gets]
             IN  IF t.err # "none" THEN [withTree EXCEPT !.err = "tree"]
                 ELSE LET proofPath == GenerateProofOf(t.tree, r.receipt.TransactionIndex)
                          d == GetCustomData(tx)
                      IN  IF proofPath.nil THEN [withTree EXCEPT !.err = "path"]
                          ELSE IF d.panic THEN [withTree EXCEPT !.panic = TRUE]
                          ELSE IF d.err THEN [withTree EXCEPT !.err = "decode"]
                          ELSE [withTree EXCEPT !.proof =
                                   [txHash |-> tx.hash, txData |-> tx.data,
                                    BlockHash |-> r.receipt.BlockHash,
                                    TransactionIndex |-> r.receipt.TransactionIndex,
                                    receiptTxHash |-> r.receipt.TxHash,
                                    CustomData |-> d.customData,
                                    ProofPath |-> proofPath.path]]

FailPoints == {"none", "receipt", "tx", "pending", "block"}

ProofInitWith(block) ==
    /\ chain = [b \in BlockHashes |-> block]
    /\ proofCache = << >>
    /\ receiptCache = EmptyLru
    /\ blockCache = EmptyLru
    /\ treeCache = << >>
    /\ ProofsGenerated = 0
    /\ CacheHits = 0
    /\ CacheMisses = 0
    /\ now = 0
    /\ gres = NoGres
    /\ vres = NoVres

\* the node holds one block of n transactions; transaction i has the hash <<i>>
ProofInit ==
    \E n \in 1..MaxLeaves, shift \in 0..(Len(TxDatas) - 1) :
        ProofInitWith([i \in 1..n |->
                         [hash |-> <<i>>, data |-> TxDatas[((i + shift) % Len(TxDatas)) + 1]]])

ProofIdle == ProofInitWith(<< [hash |-> <<1>>, data |-> <<>>] >>)

\* Manager.GenerateProof(txHash)
GenerateProof(h, fail) ==
    /\ ~panicked
    /\ CacheHits + CacheMisses < MaxProofCalls
    /\ vres' = NoVres
    /\ IF ProofCacheHit(h)
       THEN /\ fail = "none"
            /\ CacheHits' = CacheHits + 1
            /\ gres' = [done |-> TRUE, err |-> "none", proof |-> proofCache[h].proof]
            /\ UNCHANGED <<proofCache, receiptCache, blockCache, treeCache,
                           ProofsGenerated, CacheMisses, poolCurrent, panicked>>
       ELSE \E g \in {GenerateProofMiss(h, fail)} :
                /\ CacheMisses' = CacheMisses + 1
                /\ UNCHANGED CacheHits
                /\ panicked' = (g.panic \/ (poolClosed /\ g.gets > 0))
                /\ IF poolClosed /\ g.gets > 0
                   THEN /\ fail = "none"
                        /\ proofCache' = ProofCacheAfterGet(h)
                        /\ gres' = NilHandleGres
                        /\ UNCHANGED <<receiptCache, blockCache, treeCache, poolCurrent,
                                       ProofsGenerated>>
                   ELSE /\ receiptCache' = g.rc
                        /\ blockCache' = g.bc
                        /\ treeCache' = g.tc
                        /\ poolCurrent' = PoolGets(poolCurrent, g.gets)
                        /\ IF g.err = "none" /\ ~g.panic
                           THEN /\ proofCache' =
                                       ProofCacheSet(ProofCacheAfterGet(h), h, g.proof)
                                /\ ProofsGenerated' = ProofsGenerated + 1
                                /\ gres' = [done |-> TRUE, err |-> "none", proof |-> g.proof]
                           ELSE /\ proofCache' = ProofCacheAfterGet(h)
                                /\ UNCHANGED ProofsGenerated
                                /\ gres' = IF g.panic THEN CrashedGres
                                           ELSE [done |-> TRUE, err |-> g.err,
                                                 proof |-> NoProof]
    /\ UNCHANGED <<chain, now, merkleVars, poolVars, cacheVars, treeVars, encVars, nonceVars, batchVars,
                   pendingNonces, nodeTxs, poolClosed, sclosed, TxSent, TxFailed,
                   spc, snonce, serr, sret, sendsStarted>>

\* Manager.VerifyProofWithContext: [ok, err, bc, tc, gets, panic]
VerifyProofOutcome(proof, fail) ==
    LET g == GetBlockStage(blockCache, proof.BlockHash, fail)
        base == [ok |-> FALSE, err |-> "none", bc |-> g.bc, tc |-> treeCache,
                 gets |-> g.gets, panic |-> FALSE]
    IN  IF g.err # "none" THEN [base EXCEPT !.err = "block"]
        ELSE IF proof.TransactionIndex >= Len(g.block) THEN [base EXCEPT !.err = "range"]
        ELSE IF g.block[proof.TransactionIndex + 1].hash # proof.txHash
        THEN [base EXCEPT !.err = "txhash"]
        ELSE IF proof.receiptTxHash # proof.txHash THEN [base EXCEPT !.err = "receipt"]
        ELSE LET t == GetMerkleTreeStage(treeCache, g.bc, proof.BlockHash, fail)
                 withTree == [base EXCEPT !.bc = t.bc, !.tc = t.tc, !.gets = g.gets + t.gets]
             IN  IF t.err # "none" THEN [withTree EXCEPT !.err = "tree"]
                 ELSE IF ~VerifyProofOf(t.tree, proof.txHash, proof.TransactionIndex,
                                        proof.ProofPath)
                 THEN [withTree EXCEPT !.err = "merkle"]
                 ELSE LET d == DecodeCustomData(proof.txData)
                      IN  IF d.panic THEN [withTree EXCEPT !.panic = TRUE]
                          ELSE IF d.err THEN [withTree EXCEPT !.err = "decode"]
                          ELSE IF Len(d.customData) # Len(proof.CustomData)
                          THEN [withTree EXCEPT !.err = "length"]
                          ELSE IF d.customData # proof.CustomData
                          THEN [withTree EXCEPT !.err = "data"]
                          ELSE [withTree EXCEPT !.ok = TRUE]

\* Manager.VerifyProof on the proof the last GenerateProof returned
VerifyProof(fail) ==
    /\ ~panicked
    /\ gres.done /\ gres.err = "none" /\ ~vres.done
    /\ fail \in {"none", "block"}
    /\ \E v \in {VerifyProofOutcome(gres.proof, fail)} :
           /\ panicked' = (v.panic \/ (poolClosed /\ v.gets > 0))
           /\ IF poolClosed /\ v.gets > 0
              THEN /\ fail = "none"
                   /\ vres' = NilHandleVres
                   /\ UNCHANGED <<blockCache, treeCache, poolCurrent>>
              ELSE /\ blockCache' = v.bc
                   /\ treeCache' = v.tc
                   /\ poolCurrent' = PoolGets(poolCurrent, v.gets)
                   /\ vres' = IF v.panic THEN CrashedVres
                              ELSE [done |-> TRUE, ok |-> v.ok, err |-> v.err]
    /\ UNCHANGED <<chain, proofCache, receiptCache, ProofsGenerated, CacheHits, CacheMisses,
                   now, gres, merkleVars, poolVars, cacheVars, treeVars, encVars, nonceVars, batchVars,
                   pendingNonces, nodeTxs, poolClosed, sclosed, TxSent, TxFailed,
                   spc, snonce, serr, sret, sendsStarted>>

\* a transaction that is in no block of the node
ForeignTx == [hash |-> <<99>>, data |-> <<>>]

\* the Proofs that differ from p in one field: what a caller can hand to
\* VerifyProof in place of the Proof GenerateProof gave it
Tampered(p) ==
    LET block == chain[p.BlockHash]
    IN  {[p EXCEPT !.TransactionIndex = i] : i \in (0..Len(block)) \ {p.TransactionIndex}}
        \cup {[p EXCEPT !.txHash = tx.hash, !.txData = tx.data] :
                  tx \in ({block[i] : i \in 1..Len(block)} \cup {ForeignTx})
                            \ {[hash |-> p.txHash, data |-> p.txData]}}
        \cup {[p EXCEPT !.receiptTxHash = ForeignTx.hash]}
        \cup {[p EXCEPT !.ProofPath[j] = ForeignTx.hash] : j \in 1..Len(p.ProofPath)}
        \cup {[p EXCEPT !.ProofPath = Append(p.ProofPath, ForeignTx.hash)]}
        \cup {[p EXCEPT !.CustomData = d] : d \in {<<>>, <<7, 8>>, <<7, 9>>} \ {p.CustomData}}
        \cup {[p EXCEPT !.BlockHash = "B9"]}

\* the caller changes one field of the Proof it got before it calls VerifyProof
TamperProof ==
    /\ ~panicked
    /\ gres.done /\ gres.err = "none" /\ ~vres.done
    /\ \E h \in DOMAIN proofCache : proofCache[h].proof = gres.proof
    /\ \E q \in Tampered(gres.proof) : gres' = [gres EXCEPT !.proof = q]
    /\ UNCHANGED <<chain, proofCache, receiptCache, blockCache, treeCache,
                   ProofsGenerated, CacheHits, CacheMisses, now, vres,
                   merkleVars, poolVars, cacheVars, treeVars, nonceVars, encVars, batchVars, sendVars>>

\* time passes
Tick ==
    /\ ~panicked /\ now < MaxTime
    /\ now' = now + 1
    /\ UNCHANGED <<chain, proofCache, receiptCache, blockCache, treeCache,
                   ProofsGenerated, CacheHits, CacheMisses, gres, vres,
                   merkleVars, poolVars, cacheVars, treeVars, encVars, nonceVars, batchVars, sendVars>>

(***************************************************************************)
(* pkg/cache: ProofCache with its readers, writers and the cleanup         *)
(* goroutine.  sync.Map makes Load, Store and Delete atomic one by one; a  *)
(* Get is a Load followed, for an expired entry, by a Delete.              *)
(***************************************************************************)
Readers == {"r1", "r2"}
CacheKeys == {<<1>>, <<2>>}
CacheValues == {"pA", "pB"}
MaxCacheCalls == 4

NeverSet == [value |-> "", at |-> -1]

LruCaches == {"block", "receipt"}
NoLruCall == [cache |-> "", kind |-> "none", key |-> 0, hit |-> FALSE, len |-> 0,
              oldest |-> 0, before |-> {}]
NoLoad == [key |-> <<>>, stored |-> 0, at |-> 0, set |-> NeverSet]
NoCacheRet == [done |-> FALSE, key |-> <<>>, found |-> FALSE, value |-> "",
               present |-> FALSE, stored |-> 0, at |-> 0, set |-> NeverSet]

\* NewProofCache, and the block and receipt caches as NewManager makes them
CacheInit ==
    /\ cpc = [c \in Readers |-> "idle"]
    /\ cload = [c \in Readers |-> NoLoad]
    /\ cacheRet = NoCacheRet
    /\ lastSet = [k \in CacheKeys |-> NeverSet]
    /\ sweepPending = {}
    /\ sweepKey = <<>>
    /\ sweepRemoved = {}
    /\ cacheCalls = 0
    /\ lruUsed = [c \in LruCaches |-> <<>>]
    /\ lruLast = NoLruCall

CacheFrame ==
    UNCHANGED <<chain, treeCache, ProofsGenerated, CacheHits, CacheMisses, gres, vres,
                merkleVars, poolVars, encVars, nonceVars, batchVars, sendVars, treeVars>>

LruIdle == UNCHANGED <<receiptCache, blockCache, lruUsed, lruLast>>

\* sync.Map.Delete
MapDelete(m, k) == [x \in DOMAIN m \ {k} |-> m[x]]

\* ProofCache.Get: pc.cache.Load and the checks that follow it
PCGetLoad(c, key) ==
    /\ cpc[c] = "idle"
    /\ cacheCalls < MaxCacheCalls
    /\ cacheCalls' = cacheCalls + 1
    /\ IF key \notin DOMAIN proofCache
       THEN /\ cacheRet' = [NoCacheRet EXCEPT !.done = TRUE, !.key = key, !.at = now,
                                            !.set = lastSet[key]]
            /\ UNCHANGED <<cpc, cload>>
       ELSE IF Expired(proofCache[key].stored)
       THEN /\ cpc' = [cpc EXCEPT ![c] = "get_delete"]
            /\ cload' = [cload EXCEPT ![c] = [key |-> key,
                                               stored |-> proofCache[key].stored,
                                               at |-> now, set |-> lastSet[key]]]
            /\ UNCHANGED cacheRet
       ELSE /\ cacheRet' = [done |-> TRUE, key |-> key, found |-> TRUE,
                            value |-> proofCache[key].proof, present |-> TRUE,
                            stored |-> proofCache[key].stored, at |-> now,
                            set |-> lastSet[key]]
            /\ UNCHANGED <<cpc, cload>>
    /\ UNCHANGED <<proofCache, now, lastSet, sweepPending, sweepKey, sweepRemoved>>
    /\ LruIdle /\ CacheFrame

\* ProofCache.Get: pc.cache.Delete of the expired entry; return nil, false
PCGetDelete(c) ==
    /\ cpc[c] = "get_delete"
    /\ proofCache' = MapDelete(proofCache, cload[c].key)
    /\ cacheRet' = [done |-> TRUE, key |-> cload[c].key, found |-> FALSE, value |-> "",
                    present |-> TRUE, stored |-> cload[c].stored, at |-> cload[c].at,
                    set |-> cload[c].set]
    /\ cpc' = [cpc EXCEPT ![c] = "idle"]
    /\ cload' = [cload EXCEPT ![c] = NoLoad]
    /\ lastSet' = [lastSet EXCEPT ![cload[c].key] = NeverSet]
    /\ UNCHANGED <<now, sweepPending, sweepKey, sweepRemoved, cacheCalls>>
    /\ LruIdle /\ CacheFrame

\* ProofCache.Set
PCSet(key, value) ==
    /\ cacheCalls < MaxCacheCalls
    /\ cacheCalls' = cacheCalls + 1
    /\ proofCache' = ProofCacheSet(proofCache, key, value)
    /\ lastSet' = [lastSet EXCEPT ![key] = [value |-> value, at |-> now]]
    /\ cacheRet' = NoCacheRet
    /\ UNCHANGED <<now, cpc, cload, sweepPending, sweepKey, sweepRemoved>>
    /\ LruIdle /\ CacheFrame

\* ProofCache.Delete
PCDelete(key) ==
    /\ cacheCalls < MaxCacheCalls
    /\ cacheCalls' = cacheCalls + 1
    /\ proofCache' = MapDelete(proofCache, key)
    /\ cacheRet' = NoCacheRet
    /\ lastSet' = [lastSet EXCEPT ![key] = NeverSet]
    /\ UNCHANGED <<now, cpc, cload, sweepPending, sweepKey, sweepRemoved>>
    /\ LruIdle /\ CacheFrame

SweepNothing(m) == {}

\* the keys pc.cache.Range visits
SweepTargets(m) == DOMAIN m

\* cleanup: the ticker fires and Range starts
SweepFire ==
    /\ sweepPending = {} /\ sweepKey = <<>>
    /\ sweepPending' = SweepTargets(proofCache)
    /\ UNCHANGED <<proofCache, now, cpc, cload, cacheRet, lastSet, sweepKey, sweepRemoved,
                   cacheCalls>>
    /\ LruIdle /\ CacheFrame

\* cleanup: Range hands one entry to the callback, which checks its age
SweepVisit(key) ==
    /\ sweepKey = <<>>
    /\ key \in sweepPending
    /\ sweepPending' = sweepPending \ {key}
    /\ sweepKey' = IF key \in DOMAIN proofCache /\ Expired(proofCache[key].stored)
                   THEN key ELSE <<>>
    /\ UNCHANGED <<proofCache, now, cpc, cload, cacheRet, lastSet, sweepRemoved, cacheCalls>>
    /\ LruIdle /\ CacheFrame

\* cleanup: pc.cache.Delete(key) of the entry found expired
SweepDelete ==
    /\ sweepKey # <<>>
    /\ proofCache' = MapDelete(proofCache, sweepKey)
    /\ sweepRemoved' = sweepRemoved \cup {sweepKey}
    /\ sweepKey' = <<>>
    /\ lastSet' = [lastSet EXCEPT ![sweepKey] = NeverSet]
    /\ UNCHANGED <<now, cpc, cload, cacheRet, sweepPending, cacheCalls>>
    /\ LruIdle /\ CacheFrame

(***************************************************************************)
(* pkg/cache: BlockCache and ReceiptCache, wrappers of lru.Cache.  The      *)
(* value stored under a hash is the block or receipt with that hash.       *)
(***************************************************************************)
LruSize == 2
LruKeys == 1..(LruSize + 1)

\* NewBlockCache(size), NewReceiptCache(size): the capacity of the lru.Cache
NewBlockCache(size) == IF size < 1 THEN BlockCacheSize ELSE size
NewReceiptCache(size) == IF size < 1 THEN ReceiptCacheSize ELSE size

Capacity(c) == IF c = "block" THEN NewBlockCache(LruSize) ELSE NewReceiptCache(LruSize)

CacheOf(c) == IF c = "block" THEN blockCache ELSE receiptCache

\* lru.Cache.Remove
LruRemove(c, k) ==
    [keys |-> Without(c.keys, k), vals |-> [x \in DOMAIN c.vals \ {k} |-> c.vals[x]]]

\* the key of the cache whose last use is the oldest (0: the cache is empty)
LruOldest(c) ==
    LET present == SelectSeq(lruUsed[c], LAMBDA k : LruHas(CacheOf(c), k))
    IN  IF present = <<>> THEN 0 ELSE Head(present)

\* a call to one of the two caches; they share no state, so a run fills one of
\* them and leaves the other one empty
LruCall(c, kind, k, after, used) ==
    /\ \A d \in LruCaches \ {c} : lruUsed[d] = <<>>
    /\ IF c = "block"
       THEN blockCache' = after /\ UNCHANGED receiptCache
       ELSE receiptCache' = after /\ UNCHANGED blockCache
    /\ lruUsed' = [lruUsed EXCEPT ![c] = IF used THEN Append(Without(@, k), k) ELSE @]
    /\ lruLast' = [cache |-> c, kind |-> kind, key |-> k, hit |-> LruHas(CacheOf(c), k),
                   len |-> Len(after.keys), oldest |-> LruOldest(c),
                   before |-> DOMAIN CacheOf(c).vals]
    /\ UNCHANGED <<proofCache, now, cpc, cload, cacheRet, lastSet, sweepPending, sweepKey,
                   sweepRemoved, cacheCalls>>
    /\ CacheFrame

\* BlockCache.Get, ReceiptCache.Get: a hit makes the key the most recently used
LruLookup(c, k) == IF LruHas(c, k) THEN LruGet(c, k) ELSE c

\* BlockCache.Set, ReceiptCache.Set
LruSetCall(c, k) == LruCall(c, "set", k, LruAdd(CacheOf(c), k, k, Capacity(c)), TRUE)

\* BlockCache.Get, ReceiptCache.Get
LruGetCall(c, k) == LruCall(c, "get", k, LruLookup(CacheOf(c), k), LruHas(CacheOf(c), k))

\* BlockCache.Delete, ReceiptCache.Delete
LruDeleteCall(c, k) == LruCall(c, "delete", k, LruRemove(CacheOf(c), k), FALSE)

\* BlockCache.Len, ReceiptCache.Len
LruLenCall(c) == LruCall(c, "len", 0, CacheOf(c), FALSE)

(***************************************************************************)
(* pkg/transaction: Manager.getMerkleTree run by concurrent callers.       *)
(* treeCache is a sync.Map: Load and Store are atomic one by one.          *)
(***************************************************************************)
TreeCallers == {"t1", "t2"}
MaxTreeCalls == 3

NoTret == [done |-> FALSE, block |-> "", err |-> "none", memo |-> FALSE, stored |-> FALSE]

TreeInit ==
    /\ tpc = [c \in TreeCallers |-> "idle"]
    /\ tblock = [c \in TreeCallers |-> [hash |-> "", txs |-> <<>>, fail |-> "none"]]
    /\ tret = [c \in TreeCallers |-> NoTret]
    /\ treeBuilds = [b \in BlockHashes |-> 0]
    /\ treeCalls = 0

TreeFrame ==
    UNCHANGED <<chain, proofCache, receiptCache, ProofsGenerated, CacheHits, CacheMisses,
                now, gres, vres, merkleVars, poolVars, cacheVars, encVars, nonceVars,
                batchVars, pendingNonces, nodeTxs, poolClosed, sclosed, TxSent, TxFailed,
                spc, snonce, serr, sret, sendsStarted>>

\* GenerateProof or VerifyProof calls m.getMerkleTree(ctx, blockHash)
TreeBegin(c, b, fail) ==
    /\ ~panicked
    /\ tpc[c] = "idle"
    /\ treeCalls < MaxTreeCalls
    /\ treeCalls' = treeCalls + 1
    /\ tpc' = [tpc EXCEPT ![c] = "load"]
    /\ tblock' = [tblock EXCEPT ![c] = [hash |-> b, txs |-> <<>>, fail |-> fail]]
    /\ tret' = [tret EXCEPT ![c] = [NoTret EXCEPT !.block = b,
                                                 !.stored = (b \in DOMAIN treeCache)]]
    /\ UNCHANGED <<treeBuilds, treeCache, blockCache, poolCurrent, panicked>>
    /\ TreeFrame

\* getMerkleTree: m.treeCache.Load(blockHash); a hit returns the cached tree
TreeLoad(c) ==
    /\ ~panicked
    /\ tpc[c] = "load"
    /\ IF tblock[c].hash \in DOMAIN treeCache
       THEN /\ tret' = [tret EXCEPT ![c].done = TRUE, ![c].memo = TRUE]
            /\ tpc' = [tpc EXCEPT ![c] = "idle"]
       ELSE /\ tpc' = [tpc EXCEPT ![c] = "getblock"]
            /\ UNCHANGED tret
    /\ UNCHANGED <<tblock, treeBuilds, treeCalls, treeCache, blockCache, poolCurrent, panicked>>
    /\ TreeFrame

\* getMerkleTree: block, err := m.getBlock(ctx, blockHash)
TreeGetBlock(c) ==
    /\ ~panicked
    /\ tpc[c] = "getblock"
    /\ \E g \in {GetBlockStage(blockCache, tblock[c].hash, tblock[c].fail)} :
           IF poolClosed /\ g.gets > 0
           THEN /\ panicked' = TRUE
                /\ UNCHANGED <<tpc, tblock, tret, blockCache, poolCurrent>>
           ELSE /\ blockCache' = g.bc
                /\ poolCurrent' = PoolGets(poolCurrent, g.gets)
                /\ UNCHANGED panicked
                /\ IF g.err # "none"
                   THEN /\ tret' = [tret EXCEPT ![c].done = TRUE, ![c].err = "block"]
                        /\ tpc' = [tpc EXCEPT ![c] = "idle"]
                        /\ UNCHANGED tblock
                   ELSE /\ tblock' = [tblock EXCEPT ![c].txs = g.block]
                        /\ tpc' = [tpc EXCEPT ![c] = "build"]
                        /\ UNCHANGED tret
    /\ UNCHANGED <<treeBuilds, treeCalls, treeCache>>
    /\ TreeFrame

\* getMerkleTree: tree := merkle.NewTree(block.Transactions());
\* m.treeCache.Store(blockHash, tree); return tree, nil
TreeBuildStore(c) ==
    /\ ~panicked
    /\ tpc[c] = "build"
    /\ \E t \in {NewTree(TxHashes(tblock[c].txs))} :
           treeCache' = [x \in DOMAIN treeCache \cup {tblock[c].hash} |->
                            IF x = tblock[c].hash THEN t ELSE treeCache[x]]
    /\ treeBuilds' = [treeBuilds EXCEPT ![tblock[c].hash] = @ + 1]
    /\ tret' = [tret EXCEPT ![c].done = TRUE]
    /\ tpc' = [tpc EXCEPT ![c] = "idle"]
    /\ UNCHANGED <<tblock, treeCalls, blockCache, poolCurrent, panicked>>
    /\ TreeFrame

InitProof == MerkleIdle /\ SendInit /\ NonceInit /\ PoolInit /\ CacheInit /\ TreeInit /\ EncIdle /\ BatchInit /\ ProofInit

NextProof ==
    \/ \E i \in 1..(MaxLeaves + 1), fail \in FailPoints : GenerateProof(<<i>>, fail)
    \/ \E fail \in FailPoints : VerifyProof(fail)
    \/ Tick
    \/ ManagerClose

SpecProof == InitProof /\ [][NextProof]_vars

\* GenerateProof and VerifyProof with a caller that may alter the Proof in between
NextVerify ==
    \/ \E i \in 1..(MaxLeaves + 1), fail \in FailPoints : GenerateProof(<<i>>, fail)
    \/ TamperProof
    \/ \E fail \in FailPoints : VerifyProof(fail)

SpecVerify == InitProof /\ [][NextVerify]_vars

\* C9: a proof that GenerateProof returned for an included transaction is accepted
\* by VerifyProof: it returns (true, nil) unless fetching the block failed.
C9_GeneratedProofVerifies ==
    (vres.done /\ vres.err # "block") => (vres.ok /\ vres.err = "none")

Init == MerkleIdle /\ SendInit /\ NonceInit /\ PoolInit /\ CacheInit /\ TreeInit /\ EncIdle /\ BatchInit /\ ProofIdle

Next ==
    \/ \E s \in Submitters : SubmitCheck(s) \/ SubmitCount(s) \/ SubmitEnqueue(s)
    \/ \E w \in Workers : WorkerSelect(w) \/ WorkerSend(w) \/ WorkerUpdate(w) \/ WorkerPublish(w)
    \/ \E k \in Closers : CloseBegin(k) \/ CloseCancel(k) \/ CloseQueue(k) \/ CloseResults(k)
                              \/ CloseAgain(k)
    \/ GetResult

Spec == Init /\ [][Next]_vars

InitSend == MerkleIdle /\ SendInit /\ NonceInit /\ PoolInit /\ CacheInit /\ TreeInit /\ EncIdle /\ BatchInit /\ ProofIdle

NextSend ==
    \/ \E c \in Direct : StartSend(c) \/ SendStep(c)
    \/ ManagerClose

SpecSend == InitSend /\ [][NextSend]_vars

InitMerkle == MerkleInit /\ SendInit /\ NonceInit /\ PoolInit /\ CacheInit /\ TreeInit /\ EncIdle /\ BatchInit /\ ProofIdle

SpecMerkle == InitMerkle /\ [][MerkleNext]_vars

InitNonce == MerkleIdle /\ SendInit /\ NonceInit /\ PoolInit /\ CacheInit /\ TreeInit /\ EncIdle /\ BatchInit /\ ProofIdle

NextNonce ==
    \/ \E c \in NonceCallers, kind \in NonceKinds, address \in Addresses :
           NonceBegin(c, kind, address)
    \/ \E c \in NonceCallers : NonceEnter(c) \/ NonceFetchReturn(c)
    \/ \E address \in Addresses : NodeAccept(address)

SpecNonce == InitNonce /\ [][NextNonce]_vars

InitEnc ==
    MerkleIdle /\ SendInit /\ NonceInit /\ PoolInit /\ CacheInit /\ TreeInit /\ (EncInit \/ EncRawInit) /\ BatchInit /\ ProofIdle

NextEnc ==
    /\ EncEncode \/ EncDecode \/ EncDecodeRaw
    /\ UNCHANGED <<merkleVars, poolVars, cacheVars, treeVars, sendVars, batchVars, proofVars, nonceVars>>

SpecEnc == InitEnc /\ [][NextEnc]_vars

InitPool == MerkleIdle /\ SendInit /\ NonceInit /\ PoolInit /\ CacheInit /\ TreeInit /\ EncIdle /\ BatchInit /\ ProofIdle

NextPool ==
    \E c \in PoolCallers :
        \/ PoolBegin(c, "get_lock")
        \/ PoolBegin(c, "close_lock")
        \/ PoolGetLock(c)
        \/ PoolGetRead(c)
        \/ PoolGetAdvance(c)
        \/ PoolGetUnlock(c)
        \/ PoolCloseLock(c)
        \/ PoolCloseCheck(c)
        \/ PoolCloseRelease(c)
        \/ PoolCloseUnlock(c)

SpecPool == InitPool /\ [][NextPool]_vars

InitCache ==
    /\ MerkleIdle /\ SendInit /\ NonceInit /\ PoolInit /\ CacheInit /\ TreeInit /\ EncIdle /\ BatchInit
    /\ ProofIdle

NextCache ==
    \/ \E c \in Readers, key \in CacheKeys : PCGetLoad(c, key)
    \/ \E c \in Readers : PCGetDelete(c)
    \/ \E key \in CacheKeys, value \in CacheValues : PCSet(key, value)
    \/ \E key \in CacheKeys : PCDelete(key)
    \/ SweepFire
    \/ \E key \in CacheKeys : SweepVisit(key)
    \/ SweepDelete
    \/ Tick

SpecCache == InitCache /\ [][NextCache]_vars

NextLru ==
    \E c \in LruCaches :
        \/ \E k \in LruKeys : LruSetCall(c, k)
        \/ \E k \in LruKeys : LruGetCall(c, k)
        \/ \E k \in LruKeys : LruDeleteCall(c, k)
        \/ LruLenCall(c)

SpecLru == InitCache /\ [][NextLru]_vars

InitTree ==
    /\ MerkleIdle /\ SendInit /\ NonceInit /\ PoolInit /\ CacheInit /\ TreeInit /\ EncIdle
    /\ BatchInit /\ ProofInit

NextTree ==
    \E c \in TreeCallers :
        \/ \E b \in BlockHashes, fail \in {"none", "block"} : TreeBegin(c, b, fail)
        \/ TreeLoad(c)
        \/ TreeGetBlock(c)
        \/ TreeBuildStore(c)

SpecTree == InitTree /\ [][NextTree]_vars

\* the ticker of cleanup keeps firing, and the goroutine keeps running
SpecCacheLive ==
    /\ SpecCache
    /\ WF_vars(SweepFire)
    /\ WF_vars(\E key \in CacheKeys : SweepVisit(key))
    /\ WF_vars(SweepDelete)

\* a call that is in flight, holds a nonce it got from GetNext and has not failed
HoldsNonce(c) == spc[c] \in {"tip", "header", "submit"}

\* C2: two Send calls for the sender that are in flight at the same time never
\* hold the same nonce.
C2_DistinctNoncesInFlight ==
    \A c1, c2 \in Callers :
        (c1 # c2 /\ HoldsNonce(c1) /\ HoldsNonce(c2)) => snonce[c1] # snonce[c2]

\* C7: the step by which a Send call completes increments exactly one counter:
\* tx_sent when it returns a transaction, tx_failed when it returns an error.
C7_EveryOutcomeCounted ==
    [][\A c \in Callers :
          (spc[c] = "ret" /\ spc'[c] = "returned") =>
              IF serr[c] = NoErr
              THEN TxSent' = TxSent + 1 /\ TxFailed' = TxFailed
              ELSE TxFailed' = TxFailed + 1 /\ TxSent' = TxSent]_vars

InResults(r) == Cardinality({ i \in 1..Len(results) : results[i].req = r })

\* number of Results for request r ever placed on the result queue
Placed(r) == InResults(r) + delivered[r]

\* C3: once every worker has exited, every request Submit accepted has had a
\* Result placed on the result queue.
C3_AcceptedGetsResult ==
    (\A w \in Workers : wpc[w] = "exited") =>
        \A r \in Requests : subRet[r] = "ok" => Placed(r) >= 1

C5_ResultPlacedWhenSpace ==
    [][\A w \in Workers :
          (wpc[w] = "publish" /\ wpc'[w] # "publish"
              /\ ~resultsClosed /\ Len(results) < QueueSize)
              => results' = Append(results, wres[w])]_vars

\* C6: no Send that a worker runs for a request fails because the pipeline's
\* context was cancelled by Close.
C6_CloseDoesNotAbortSend ==
    \A w \in Workers : serr[w].cause # "canceled"

\* C1: for every tree of n >= 1 leaves and every index i in [0, n), the path
\* returned by GenerateProof(i) is accepted by VerifyProof(leaves[i], i, path).
C1_ProofRoundTrip ==
    (mVerdict # "none" /\ mAltered = 0) => mVerdict = "true"

\* C10: a generated path in which one sibling digest was replaced by a different
\* digest is rejected by VerifyProof (the verdict is the boolean false).
C10_AlteredSiblingRejected ==
    (mVerdict # "none" /\ mAltered # 0 /\ Len(tree.leaves) >= 2) => mVerdict = "false"

C10_Witness ==
    /\ mVerdict = "false" /\ mAltered # 0 /\ Len(tree.leaves) >= 2
    /\ mProof.path[mAltered] \in TreeDigests(tree)
\* C11: a Submit that starts once Close has set the closed flag returns the
\* "processor is closed" error, enqueues nothing and leaves the queued counter alone.
C11_SubmitAfterCloseRejected ==
    [][(closed /\ nextId' = nextId + 1) =>
          /\ subRet'[nextId'] = "closed"
          /\ queue' = queue
          /\ TotalQueued' = TotalQueued
          /\ subpc' = subpc]_vars

C11_Witness ==
    \E r \in Requests : closed /\ subRet[r] = "closed" /\ TotalQueued < nextId

\* C12 as stated: the select of Submit returns nil exactly when it enqueued the
\* request, and with the queue at capacity it returns "queue full".
C12_FullQueueReturnsFull ==
    [][\A s \in Submitters :
          (subpc[s] = "enqueue" /\ subpc'[s] = "idle") =>
              /\ (subRet'[subreq[s]] = "ok") <=> (queue' = Append(queue, subreq[s]))
              /\ Len(queue) >= QueueSize => subRet'[subreq[s]] = "full"]_vars

\* C12 amended: the select of Submit is always able to proceed; it returns nil
\* exactly when it enqueued the request; with the queue at capacity it returns
\* "queue full" unless the context was cancelled by Close, and then it returns
\* "shutting down" or sends on the closed queue.
C12_SubmitNeverBlocks ==
    /\ [](\A s \in Submitters :
             (subpc[s] = "enqueue" /\ ~panicked) => ENABLED SubmitEnqueue(s))
    /\ [][\A s \in Submitters :
             (subpc[s] = "enqueue" /\ subpc'[s] = "idle") =>
                 /\ (subRet'[subreq[s]] = "ok") <=> (queue' = Append(queue, subreq[s]))
                 /\ (Len(queue) >= QueueSize /\ ~cancelled) => subRet'[subreq[s]] = "full"
                 /\ (Len(queue) >= QueueSize /\ cancelled) =>
                        (subRet'[subreq[s]] = "shutdown" \/ panicked')]_vars

C12_Witness ==
    \E r \in Requests : subRet[r] = "full" /\ Len(queue) = QueueSize /\ ~cancelled /\ ~closed
\* everything of the pipeline and of the orchestrator that a Close call could change,
\* the closers' own positions left out
BatchButKpc ==
    <<queue, queueClosed, results, resultsClosed, cancelled, closed, onceTaken,
      TotalQueued, TotalProcessed, TotalFailed, wpc, wreq, wres, subpc, subreq, subRet,
      nextId, deqCount, delivered, sendVars>>

\* C13: whatever the interleaving of Close calls, the context is cancelled once,
\* the request queue and the result queue are each closed once, no step of a Close
\* call panics, and a Close call that did not win closeOnce changes nothing.
C13_CloseIdempotent ==
    [][\A k \in Closers :
          /\ (kpc[k] = "cancel" /\ kpc'[k] # "cancel") => ~cancelled /\ cancelled'
          /\ (kpc[k] = "closeQueue" /\ kpc'[k] # "closeQueue") => ~queueClosed /\ queueClosed'
          /\ (kpc[k] = "wait" /\ kpc'[k] # "wait") => ~resultsClosed /\ resultsClosed'
          /\ kpc'[k] # kpc[k] => panicked' = panicked
          /\ (kpc'[k] # kpc[k] /\ (kpc[k] = "once" \/ kpc'[k] = "once"))
                 => UNCHANGED BatchButKpc]_vars

C13_Witness ==
    /\ \A k \in Closers : kpc[k] = "done"
    /\ cancelled /\ queueClosed /\ resultsClosed /\ ~panicked
\* C14: a Send entered after the pool was closed never crashes on the nil handle
\* and returns an error; a GenerateProof or VerifyProof call made on the closed
\* pool does not crash and returns an error.
C14_ClosedManagerReturnsErrors ==
    [][/\ \A c \in Callers :
             sclosed[c] =>
                 /\ spc'[c] # "crashed"
                 /\ (spc[c] = "ret" /\ spc'[c] = "returned") => ~sret'[c].ok
       /\ poolClosed => (gres' # NilHandleGres /\ vres' # NilHandleVres)
       /\ (poolClosed /\ gres' # gres /\ gres'.done) => gres'.err # "none"
       /\ (poolClosed /\ vres' # vres /\ vres'.done) => vres'.err # "none"]_vars
\* C15: no caller of the nonce sequencer holds its mutex while its call of
\* PendingNonceAt to the node is in progress.
C15_NoLockAcrossNetworkCall ==
    \A c \in NonceCallers : npc[c] = "fetch" => nmu # c

\* C16: a GetNext that succeeds for an address right after another GetNext for it
\* (no Reset or ResetAll in between) returns the previous nonce plus one without
\* contacting the node; the first one fetches and returns the node's pending nonce.
C16_SuccessiveNoncesIncrease ==
    [][(ncalls' # ncalls /\ nlog'.kind = "GetNext" /\ nlog'.ok) =>
          IF nprev[nlog'.address].kind = "nonce"
          THEN ~nlog'.fetched /\ nlog'.nonce = nprev[nlog'.address].nonce + 1
          ELSE nlog'.fetched /\ nlog'.nonce = PendingNonceAt(nlog'.address)]_vars

C16_Witness ==
    /\ nlog.kind = "GetNext" /\ nlog.ok /\ ~nlog.fetched
    /\ Cardinality(nodeTxs[nlog.address]) = 1 /\ nlog.nonce = 2
    /\ ncalls = 3

\* C17: the first GetNext for an address after Reset(address) contacts the node
\* and, when the fetch succeeds, returns the pending nonce the node reports then
\* and caches that value plus one.
C17_GetNextAfterResetRefetches ==
    [][(ncalls' # ncalls /\ nlog'.kind = "GetNext"
          /\ nprev[nlog'.address].kind = "reset") =>
          /\ nlog'.fetched
          /\ nlog'.ok =>
                /\ nlog'.nonce = PendingNonceAt(nlog'.address)
                /\ pendingNonces'[nlog'.address] = PendingNonceAt(nlog'.address) + 1]_vars

C17_Witness ==
    /\ nlog.kind = "GetNext" /\ nlog.ok /\ nlog.fetched /\ nlog.nonce = 1
    /\ nprev[nlog.address].afterReset
    /\ ncalls = 4

\* C18: a GetNext whose fetch fails returns an error and leaves the nonce cache as
\* it was for every address, with no entry for the requested address.
C18_FailedFetchKeepsCache ==
    [][(ncalls' # ncalls /\ nlog'.kind = "GetNext" /\ ~nlog'.ok) =>
          /\ nlog'.fetched
          /\ pendingNonces' = pendingNonces
          /\ nlog'.address \notin DOMAIN pendingNonces']_vars

C18_Witness ==
    /\ nlog.kind = "GetNext" /\ ~nlog.ok
    /\ nlog.address \notin DOMAIN pendingNonces
    /\ \E b \in Addresses : b \in DOMAIN pendingNonces
RemainingAfterHeader == Len(encBuffer) - (Len(MagicBytes) + 4)

StartsWithMarker ==
    /\ Len(encBuffer) >= Len(MagicBytes) + 4
    /\ SubSeq(encBuffer, 1, Len(MagicBytes)) = MagicBytes

\* the declared length of the buffer is larger than what follows the header
DeclaredExceedsRemaining ==
    LET length == BigEndianUint32(SubSeq(encBuffer, Len(MagicBytes) + 1,
                                         Len(MagicBytes) + 4))
    IN  length[1] > 0 \/ length[2] > RemainingAfterHeader

\* C21: a buffer that starts with the marker and declares a length larger than
\* the bytes left after the 8-byte header makes DecodeCustomData return the
\* malformed-encoding error, for every declared length up to 2^32 - 1, and the
\* buffer is never sliced past its end.
C21_OverlongLengthIsError ==
    (encpc = "rawDecoded" /\ StartsWithMarker /\ DeclaredExceedsRemaining) =>
        (encResult.err /\ ~encResult.panic)

\* C22: a buffer shorter than 8 bytes, or one that does not start with the
\* marker, comes back whole as standard data, with no custom payload and no
\* error.
C22_PlainBufferPassesThrough ==
    (encpc = "rawDecoded" /\ ~StartsWithMarker) =>
        /\ encResult.standardData = encBuffer
        /\ encResult.customData = <<>>
        /\ ~encResult.err /\ ~encResult.panic

C22_Witness ==
    /\ encpc = "rawDecoded"
    /\ Len(encBuffer) >= Len(MagicBytes) + 4
    /\ SubSeq(encBuffer, 1, Len(MagicBytes)) # MagicBytes
    /\ encResult.standardData = encBuffer
    /\ ~encResult.err
\* the checks of VerifyProof, stated on the node's block and the Proof handed in
InRange(p) == p.BlockHash \in BlockHashes /\ p.TransactionIndex < Len(chain[p.BlockHash])
HashMatches(p) == chain[p.BlockHash][p.TransactionIndex + 1].hash = p.txHash
ReceiptMatches(p) == p.receiptTxHash = p.txHash
PathRecomputesRoot(p) ==
    Replay(p.txHash, p.TransactionIndex, p.ProofPath)
        = NewTree(TxHashes(chain[p.BlockHash])).root
PayloadMatches(p) ==
    LET d == DecodeCustomData(p.txData)
    IN  ~d.err /\ ~d.panic /\ d.customData = p.CustomData

ClientsOf(from, to) == [i \in 1..(to - from + 1) |-> poolLog[from + i - 1].client]

\* every Get so far was made by the caller c, and nobody else used the pool
SingleCaller(c) ==
    /\ \A i \in 1..Len(poolLog) : poolLog[i].caller = c
    /\ \A d \in PoolCallers \ {c} : ppc[d] = "idle"

\* C23: with a single caller and an open pool of size N, any 2N consecutive Get
\* calls return each handle exactly twice, and the second N calls return the
\* handles in the order of the first N.
C23_RoundRobinTwice ==
    \A c \in PoolCallers :
        (SingleCaller(c) /\ ~poolClosed) =>
            \A from \in 1..Len(poolLog) :
                from + 2 * PoolSize - 1 <= Len(poolLog) =>
                    LET w == ClientsOf(from, from + 2 * PoolSize - 1)
                    IN  /\ \A h \in Handles :
                              Cardinality({i \in 1..(2 * PoolSize) : w[i] = h}) = 2
                        /\ \A i \in 1..PoolSize : w[i + PoolSize] = w[i]

C23_Witness ==
    /\ SingleCaller("p1")
    /\ ~poolClosed
    /\ Len(poolLog) = 2 * PoolSize
    /\ ppc["p1"] = "get_done"

\* how many Get calls returned the handle h
Returned(h) == Cardinality({i \in 1..Len(poolLog) : poolLog[i].client = h})

\* the number of Get calls that returned a handle (they ran on the open pool)
OpenGets == Cardinality({i \in 1..Len(poolLog) : poolLog[i].client # 0})

\* C24: under any interleaving of Get calls the cursor stays in 0..N-1, each
\* Get reads its handle and advances the cursor by one (mod N) as one step
\* nobody else can split, and after k Get calls on the open pool every handle
\* was returned floor(k/N) or ceil(k/N) times.
C24_EvenReuse ==
    /\ poolCurrent \in 0..(PoolSize - 1)
    /\ poolMu = "none" => poolCurrent = OpenGets % PoolSize
    /\ \A h \in Handles :
          Returned(h) \in {OpenGets \div PoolSize, (OpenGets + PoolSize - 1) \div PoolSize}

C24_Witness ==
    /\ ~poolClosed
    /\ Len(poolLog) >= PoolSize + 1
    /\ \E i, j \in 1..Len(poolLog) : poolLog[i].caller # poolLog[j].caller
    /\ \E c, d \in PoolCallers :
          /\ ppc[c] = "get_advance"
          /\ ppc[d] = "get_lock"

\* C25: in any interleaving of Close and Get, no handle is released twice,
\* every handle has been released once when a Close has returned (so a later
\* Close releases nothing), and a Get that starts after a Close has returned
\* returns nil and leaves the cursor where it was.
C25_CloseReleasesOnce ==
    /\ \A h \in Handles : poolReleased[h] <= 1
    /\ poolCloseDone => \A h \in Handles : poolReleased[h] = 1
    /\ \A c \in PoolCallers :
          (ppc[c] = "get_done" /\ pstart[c].closeDone) =>
              /\ pclient[c] = 0
              /\ poolCurrent = pstart[c].current

C25_Witness ==
    /\ \E c \in PoolCallers : ppc[c] = "close_done" /\ pstart[c].closeDone
    /\ \E c \in PoolCallers :
          ppc[c] = "get_done" /\ pstart[c].closeDone /\ pclient[c] = 0
    /\ \E i \in 1..Len(poolLog) : poolLog[i].client # 0
    /\ poolCurrent # 0
    /\ \A h \in Handles : poolReleased[h] = 1

\* C26: ProofCache.Get(key) returns (value, true) exactly when the key has an
\* entry whose age, counted from the Set that stored it, is at most the ttl, and
\* the value is the one that Set stored; for an older entry Get returns
\* not-found and that entry is gone; a hit leaves the entry's time as it was
\* (every entry carries the time of the Set that stored it).
C26_GetHonoursTtl ==
    cacheRet.done =>
        /\ cacheRet.found <=> (cacheRet.present /\ cacheRet.at - cacheRet.stored <= ProofTTL)
        /\ cacheRet.present => cacheRet.stored = cacheRet.set.at
        /\ cacheRet.found => cacheRet.value = cacheRet.set.value
        /\ (cacheRet.present /\ ~cacheRet.found) =>
              ~(/\ cacheRet.key \in DOMAIN proofCache
                /\ proofCache[cacheRet.key].stored = cacheRet.stored)
        /\ \A k \in DOMAIN proofCache : proofCache[k].stored = lastSet[k].at

C26_Witness ==
    /\ cacheRet.done /\ cacheRet.found
    /\ cacheRet.at - cacheRet.stored = ProofTTL
    /\ cacheRet.key \in DOMAIN proofCache
    /\ \E c \in Readers : cpc[c] = "get_delete"

\* C27: an entry of the proof cache that has expired does not stay: while the
\* sweep timer keeps firing it is eventually removed, even if nobody reads the
\* key again.
C27_ExpiredEventuallySwept ==
    \A k \in CacheKeys :
        (k \in DOMAIN proofCache /\ Expired(proofCache[k].stored))
            ~> ~(k \in DOMAIN proofCache /\ Expired(proofCache[k].stored))

C27_Witness ==
    \E k \in sweepRemoved :
        /\ k \notin DOMAIN proofCache
        /\ sweepKey = <<>>
        /\ ~(cacheRet.done /\ cacheRet.key = k)
        /\ \A c \in Readers : cpc[c] = "idle"

\* C28: the block and receipt caches never hold more than their capacity, and
\* Len() never reports more; a Set of a new key into a full cache evicts
\* exactly the key whose last use (Set or Get hit) is the oldest; no other
\* call evicts anything.
C28_LruEviction ==
    /\ \A c \in LruCaches : Len(CacheOf(c).keys) <= Capacity(c)
    /\ lruLast.kind = "len" => lruLast.len <= Capacity(lruLast.cache)
    /\ lruLast.kind = "set" =>
          LET c == lruLast.cache
              full == Cardinality(lruLast.before) = Capacity(c)
          IN  DOMAIN CacheOf(c).vals =
                  IF lruLast.key \notin lruLast.before /\ full
                  THEN (lruLast.before \ {lruLast.oldest}) \cup {lruLast.key}
                  ELSE lruLast.before \cup {lruLast.key}
    /\ lruLast.kind \in {"get", "len"} =>
          DOMAIN CacheOf(lruLast.cache).vals = lruLast.before
    /\ lruLast.kind = "delete" =>
          DOMAIN CacheOf(lruLast.cache).vals = lruLast.before \ {lruLast.key}

C28_Witness ==
    /\ lruLast.kind = "set"
    /\ lruLast.key \notin lruLast.before
    /\ Cardinality(lruLast.before) = Capacity(lruLast.cache)
    /\ lruLast.oldest \in lruLast.before
    /\ lruLast.oldest \notin DOMAIN CacheOf(lruLast.cache).vals
    /\ CacheOf(lruLast.cache).keys[1] > lruLast.oldest
    /\ CacheOf(lruLast.cache).keys[1] < lruLast.key

\* the proof cache holds an entry for h that is not older than the ttl
CachedUnexpired(h) == h \in DOMAIN proofCache /\ now - proofCache[h].stored <= ProofTTL

\* C29: a GenerateProof call for a hash whose proof is cached and not expired
\* returns the cached proof, adds exactly one to cache_hits, makes no call to
\* the node (no connection is taken from the pool), and changes no other
\* counter and no cache.
C29_CacheHitFrame ==
    [][\A i \in 1..(MaxLeaves + 1) :
          (CachedUnexpired(<<i>>) /\ \E fail \in FailPoints : GenerateProof(<<i>>, fail)) =>
              /\ gres' = [done |-> TRUE, err |-> "none", proof |-> proofCache[<<i>>].proof]
              /\ CacheHits' = CacheHits + 1
              /\ UNCHANGED <<CacheMisses, ProofsGenerated, TxSent, TxFailed>>
              /\ UNCHANGED <<proofCache, receiptCache, blockCache, treeCache>>
              /\ UNCHANGED <<poolCurrent, panicked, chain>>]_vars

C29_Witness ==
    /\ gres.done /\ gres.err = "none"
    /\ CacheHits = 1 /\ CacheMisses = 1 /\ ProofsGenerated = 1
    /\ \E h \in DOMAIN proofCache :
          /\ proofCache[h].proof = gres.proof
          /\ now - proofCache[h].stored = ProofTTL

\* C30: on the miss path GenerateProof stores the proof and adds one to
\* proofs_generated exactly when it succeeds; when the transaction is pending,
\* or the receipt, the transaction, the tree, the index or the payload fails,
\* it returns an error, the proof cache has no entry for the hash and
\* proofs_generated is unchanged.
C30_StoresOnlyOnSuccess ==
    [][\A i \in 1..(MaxLeaves + 1) :
          (~CachedUnexpired(<<i>>) /\ \E fail \in FailPoints : GenerateProof(<<i>>, fail)) =>
              IF gres'.done /\ gres'.err = "none"
              THEN /\ <<i>> \in DOMAIN proofCache'
                   /\ proofCache'[<<i>>] = [proof |-> gres'.proof, stored |-> now]
                   /\ ProofsGenerated' = ProofsGenerated + 1
              ELSE /\ gres'.done
                   /\ <<i>> \notin DOMAIN proofCache'
                   /\ ProofsGenerated' = ProofsGenerated]_vars

\* C31: the tree of a block hash is built only on the first use of the hash:
\* under any interleaving of getMerkleTree callers it is constructed at most
\* once, and a call that starts when the tree is stored returns the memoized
\* tree without fetching the block or building.
C31_TreeBuiltOnce ==
    /\ \A b \in BlockHashes : treeBuilds[b] <= 1
    /\ \A c \in TreeCallers : (tret[c].done /\ tret[c].stored) => tret[c].memo

\* entry j (0-based) of the layer above `layer`
ParentEntry(layer, j) ==
    IF 2 * j + 1 < Len(layer)
    THEN Keccak256Hash(layer[2 * j + 1], layer[2 * j + 2])
    ELSE layer[2 * j + 1]

LayersWellFormed(t) ==
    /\ Len(t.leaves) >= 1
    /\ t.layers[1] = t.leaves
    /\ \A k \in 1..(Len(t.layers) - 1) :
          /\ Len(t.layers[k + 1]) = (Len(t.layers[k]) + 1) \div 2
          /\ \A j \in 0..(Len(t.layers[k + 1]) - 1) :
                t.layers[k + 1][j + 1] = ParentEntry(t.layers[k], j)
    /\ Len(t.layers[Len(t.layers)]) = 1
    /\ t.layers[Len(t.layers)][1] = t.root

\* C32: in a tree built from n >= 1 leaves, layer 0 is the leaf sequence, layer
\* k+1 has ceil(len(layer k)/2) entries, each the hash of the pair below it or
\* the unpaired last node unchanged, the top layer is the root alone, and
\* GenerateProof and VerifyProof leave leaves, layers and root as they are.
C32_LayerStructure ==
    /\ [](LayersWellFormed(tree))
    /\ [][tree' = tree]_vars

C32_Witness ==
    /\ Len(tree.leaves) = 5
    /\ Len(tree.layers) = 4
    /\ Len(tree.layers[2]) = 3
    /\ tree.layers[2][3] = tree.leaves[5]
    /\ mVerdict # "none"

\* index of the node above leaf `index` at layer `level` (0 = leaves)
NodeAt(index, level) == index \div (2 ^ level)

\* layers (0-based, below the top) at which the node on the way up has a sibling
SiblingLevels(t, index) ==
    { k \in 0..(Len(t.layers) - 2) : Xor1(NodeAt(index, k)) < Len(t.layers[k + 1]) }

IsSiblingPath(t, index, path) ==
    /\ Len(path) = Cardinality(SiblingLevels(t, index))
    /\ \A k \in SiblingLevels(t, index) :
          path[Cardinality({ m \in SiblingLevels(t, index) : m <= k })]
              = t.layers[k + 1][Xor1(NodeAt(index, k)) + 1]

ProofAsSpecified(t, index, proof) ==
    /\ proof.nil <=> index >= Len(t.leaves)
    /\ ~proof.nil =>
          /\ IsSiblingPath(t, index, proof.path)
          /\ Len(proof.path) <= Len(t.layers) - 1
          /\ \A d \in 0..TestLeafCount : Len(t.leaves) = 2 ^ d => Len(proof.path) = d

\* C33: GenerateProof(index) returns the nil path exactly when index >= leaf
\* count; for a valid index it returns, bottom first, the sibling (index XOR 1)
\* of each layer where one exists: at most layers-1 digests, and exactly d for
\* every index of a tree with 2^d leaves (3 for index 3 of the 8-leaf tree).
C33_ProofShape ==
    [][\A i \in 0..(MaxLeaves + 1) : MGenerateProof(i) => ProofAsSpecified(tree, i, mProof')]_vars

C33_Witness ==
    /\ Len(tree.leaves) = TestLeafCount
    /\ mIndex = 3 /\ mAltered = 0 /\ mVerdict = "none"
    /\ ~mProof.nil
    /\ mProof.path = <<tree.layers[1][3], tree.layers[2][1], tree.layers[3][2]>>

\* the sibling sequences a caller can hold without inverting the hash: the
\* paths the tree hands out, and the empty one
KnownPaths(t) == { GenerateProofOf(t, i).path : i \in 0..(Len(t.leaves) - 1) } \cup { <<>> }

\* VerifyProof called with any leaf digest, index and sibling sequence
MVerifyAny(leaf, index, path) ==
    /\ mLeaf' = leaf
    /\ mIndex' = index
    /\ mProof' = [nil |-> FALSE, path |-> path]
    /\ mAltered' = 0
    /\ mVerdict' = IF VerifyProofOf(tree, leaf, index, path) THEN "true" ELSE "false"
    /\ UNCHANGED tree

MerkleSoundNext ==
    /\ \E leaf \in TreeDigests(tree) \cup LeafDigests, index \in 0..(MaxLeaves + 1),
          path \in KnownPaths(tree) : MVerifyAny(leaf, index, path)
    /\ UNCHANGED <<sendVars, batchVars, proofVars, nonceVars, encVars, poolVars, cacheVars, treeVars>>

SpecSound == InitMerkle /\ [][MerkleSoundNext]_vars

\* C38: VerifyProof is sound: for any leaf digest, index and sibling sequence
\* it returns true only if index < LeafCount() and the leaf digest is the
\* tree's leaf at that index.
C38_VerifySound ==
    mVerdict = "true" =>
        /\ mIndex < Len(tree.leaves)
        /\ mLeaf = tree.leaves[mIndex + 1]

\* C34: Close signals the shutdown, then closes the request queue, then waits
\* for every worker to exit, and only then closes the result queue; so no worker
\* ever sends a Result on a closed result queue.
C34_CloseOrder ==
    /\ cancelled => closed
    /\ queueClosed => cancelled
    /\ resultsClosed => (queueClosed /\ \A w \in Workers : wpc[w] = "exited")
    /\ \A w \in Workers : wpc[w] = "publish" => ~resultsClosed

C34_Witness ==
    /\ resultsClosed
    /\ TotalProcessed >= 1
    /\ \E k \in Closers : kpc[k] = "done"
    /\ ~panicked

\* C35: a worker never blocks on publishing a Result: with the result queue
\* full and nobody reading, the publishing step is still enabled, it leaves the
\* result queue as it is (the Result is dropped), and the worker is back at the
\* select that takes the next request.
C35_PublishNeverBlocks ==
    /\ [](\A w \in Workers :
             (wpc[w] = "publish" /\ ~panicked) => ENABLED WorkerPublish(w))
    /\ [][\A w \in Workers :
             (wpc[w] = "publish" /\ wpc'[w] # "publish") =>
                 /\ wpc'[w] = "select"
                 /\ (Len(results) >= QueueSize /\ ~panicked') =>
                        (results' = results /\ wres'[w] = NoResult)]_vars

C35_Witness ==
    /\ Len(results) = QueueSize
    /\ TotalProcessed = Len(results) + 1
    /\ \A r \in Requests : delivered[r] = 0
    /\ ~cancelled /\ ~panicked
    /\ \A w \in Workers : wpc[w] = "select"

\* C36: a Submit that runs concurrently with Close never sends on the closed
\* request queue: its last step either enqueues the request while the queue is
\* open or returns an error, and never panics.
C36_SubmitNeverPanics ==
    [][\A s \in Submitters :
          (subpc[s] = "enqueue" /\ subpc'[s] = "idle") =>
              /\ ~panicked'
              /\ \/ (~queueClosed /\ queue' = Append(queue, subreq[s]))
                 \/ (queue' = queue /\ subRet'[subreq[s]] \in {"shutdown", "full"})]_vars

RECURSIVE SumOver(_, _)
SumOver(f, S) ==
    IF S = {} THEN 0
    ELSE LET x == CHOOSE y \in S : TRUE IN f[x] + SumOver(f, S \ {x})

\* requests a worker took from the queue and carried past the Send stage of
\* processRequest
PastSend == SumOver(deqCount, Requests) - Cardinality({ w \in Workers : wpc[w] = "send" })

\* C39: in every state of the pipeline TotalFailed <= TotalProcessed <=
\* TotalQueued, no counter ever decreases, and TotalProcessed is the number of
\* requests a worker has carried through Send, delivered or dropped.
C39_CountersOrdered ==
    /\ [](/\ TotalFailed <= TotalProcessed
          /\ TotalProcessed <= TotalQueued
          /\ TotalProcessed = PastSend)
    /\ [][/\ TotalQueued' >= TotalQueued
          /\ TotalProcessed' >= TotalProcessed
          /\ TotalFailed' >= TotalFailed]_vars

C39_Witness ==
    /\ TotalQueued = 2 /\ TotalProcessed = 2 /\ TotalFailed = 1
    /\ Len(results) = 1
    /\ \A r \in Requests : delivered[r] = 0
    /\ \A w \in Workers : wpc[w] = "select"

\* the pipeline with goroutines that keep running: every worker and every Close
\* call takes its next step when it has one, and a Send in progress returns
SpecBatchLive ==
    /\ Spec
    /\ \A w \in Workers :
          /\ WF_vars(WorkerSelect(w))
          /\ SF_vars(WorkerSend(w))
          /\ WF_vars(WorkerUpdate(w))
          /\ WF_vars(WorkerPublish(w))
    /\ \A k \in Closers :
          WF_vars(CloseBegin(k) \/ CloseCancel(k) \/ CloseQueue(k) \/ CloseResults(k) \/ CloseAgain(k))

CloseCalled(k) == kpc[k] \notin {"idle", "done"}

\* C40: a Close on the pipeline eventually returns, with every worker exited,
\* whatever the request queue and the result queue hold when it is called.
C40_CloseReturns ==
    \A k \in Closers :
        CloseCalled(k) ~> (kpc[k] = "done" /\ \A w \in Workers : wpc[w] = "exited")

\* the same, for the runs in which the process does not crash
C40_CloseReturnsUnlessCrash ==
    \A k \in Closers :
        CloseCalled(k) ~> (panicked \/ (kpc[k] = "done" /\ \A w \in Workers : wpc[w] = "exited"))

\* C37: neither ProofCache.Get nor the background sweep ever removes an
\* unexpired entry: an entry within its ttl leaves the cache only by a call of
\* Delete (so a Get within the ttl of a completed Set finds the value set).
C37_UnexpiredNeverRemoved ==
    [][\A k \in CacheKeys :
          (/\ k \in DOMAIN proofCache
           /\ ~Expired(proofCache[k].stored)
           /\ k \notin DOMAIN proofCache')
              => cacheCalls' = cacheCalls + 1]_vars


====
